---- MODULE Spec2Model ----
(***************************************************************************)
(* A model of pecanpy: the survey-year column normalizers                  *)
(* (surveys_api.py / api.py), the time-windowed query builders             *)
(* (electricity_egauge_api.py, gas_water_api.py), the 2014 survey          *)
(* preprocessing script (GetSurveyData2014.py) and the helpers of utils.py *)
(* (read_sql_query, read_metadata_table).                                  *)
(*                                                                         *)
(* A cell of a table is a tagged tuple:                                    *)
(*   <<"None">>          Python None                                       *)
(*   <<"NaN">>           float NaN (pandas' missing marker)                *)
(*   <<"str", s>>        a Python str                                      *)
(*   <<"bool", b>>       True / False                                      *)
(*   <<"num", m, e>>     the number m * 10^e, canonical: e = 0 for an      *)
(*                       integer value, else e < 0 and m not divisible by  *)
(*                       10 (int and float are not told apart: 3 == 3.0)   *)
(* A Series is a sequence of cells, a DataFrame a record                   *)
(* [columns |-> sequence of names, data |-> function name -> Series].      *)
(***************************************************************************)
EXTENDS Integers, Sequences, FiniteSets, TLC

VARIABLES
    pc,          \* position of the running call or script
    con,         \* the database behind the connection: table name -> contents
    nqueries,    \* number of statements executed against con
    call,        \* the call made: function name and arguments
    ret,         \* what the call returned or raised
    impute,      \* GetSurveyData2014.impute
    surveys,     \* GetSurveyData2014.surveys
    surveysOHE,  \* GetSurveyData2014.surveysOHE
    surveydata   \* GetSurveyData2014.surveydata (the pickled table)

vars == <<pc, con, nqueries, call, ret, impute, surveys, surveysOHE, surveydata>>

-----------------------------------------------------------------------------
(* Bounds of the model.                                                    *)

\* largest number of rows of a survey table
MaxRows == 2

-----------------------------------------------------------------------------
(* Cells.                                                                  *)

None == <<"None">>
NaN == <<"NaN">>
Str(s) == <<"str", s>>
Bool(b) == <<"bool", b>>

IsNull(c) == c[1] \in {"None", "NaN"}
IsStr(c) == c[1] = "str"
IsBool(c) == c[1] = "bool"
IsNum(c) == c[1] = "num"

RECURSIVE Norm(_, _)
\* the canonical form of m * 10^e
Norm(m, e) ==
    IF m = 0 THEN <<"num", 0, 0>>
    ELSE IF e > 0 THEN Norm(m * 10, e - 1)
    ELSE IF e < 0 /\ m % 10 = 0 THEN Norm(m \div 10, e + 1)
    ELSE <<"num", m, e>>

Num(n) == <<"num", n, 0>>

RECURSIVE Pow10(_)
Pow10(k) == IF k = 0 THEN 1 ELSE 10 * Pow10(k - 1)

\* v > n for a number cell v and an integer n
NumGT(v, n) == v[2] > n * Pow10(0 - v[3])

\* v / 1e3
NumDiv1000(v) == Norm(v[2], v[3] - 3)

-----------------------------------------------------------------------------
(* Python str operations, on TLA+ strings.                                 *)

\* str.lower() of each upper-case letter
LowerOf ==
    [A |-> "a", B |-> "b", C |-> "c", D |-> "d", E |-> "e", F |-> "f",
     G |-> "g", H |-> "h", I |-> "i", J |-> "j", K |-> "k", L |-> "l",
     M |-> "m", N |-> "n", O |-> "o", P |-> "p", Q |-> "q", R |-> "r",
     S |-> "s", T |-> "t", U |-> "u", V |-> "v", W |-> "w", X |-> "x",
     Y |-> "y", Z |-> "z"]

CharAt(s, i) == SubSeq(s, i, i)

\* str.lower() of a one-character string
LowerChar(c) == IF c \in DOMAIN LowerOf THEN LowerOf[c] ELSE c

RECURSIVE Lower(_)
Lower(s) == IF Len(s) = 0 THEN "" ELSE LowerChar(CharAt(s, 1)) \o Lower(SubSeq(s, 2, Len(s)))

\* str.startswith / str.endswith
startswith(s, p) == Len(s) >= Len(p) /\ SubSeq(s, 1, Len(p)) = p
endswith(s, p) == Len(s) >= Len(p) /\ SubSeq(s, Len(s) - Len(p) + 1, Len(s)) = p

RECURSIVE StrReplace(_, _, _, _)
\* re.sub of a literal, non-empty pattern: every non-overlapping occurrence
\* of pat in s, left to right, becomes repl; case = FALSE ignores case
StrReplace(s, pat, repl, case) ==
    IF Len(s) < Len(pat) THEN s
    ELSE LET head == SubSeq(s, 1, Len(pat))
             hit == IF case THEN head = pat ELSE Lower(head) = Lower(pat)
         IN IF hit
            THEN repl \o StrReplace(SubSeq(s, Len(pat) + 1, Len(s)), pat, repl, case)
            ELSE CharAt(s, 1) \o StrReplace(SubSeq(s, 2, Len(s)), pat, repl, case)

RECURSIVE LStrip(_)
LStrip(s) == IF Len(s) > 0 /\ CharAt(s, 1) = " " THEN LStrip(SubSeq(s, 2, Len(s))) ELSE s

RECURSIVE RStrip(_)
RStrip(s) ==
    IF Len(s) > 0 /\ CharAt(s, Len(s)) = " " THEN RStrip(SubSeq(s, 1, Len(s) - 1)) ELSE s

Strip(s) == RStrip(LStrip(s))

\* the value of each decimal digit
DigitOf ==
    [d \in {"0", "1", "2", "3", "4", "5", "6", "7", "8", "9"} |->
        CASE d = "0" -> 0 [] d = "1" -> 1 [] d = "2" -> 2 [] d = "3" -> 3 [] d = "4" -> 4
          [] d = "5" -> 5 [] d = "6" -> 6 [] d = "7" -> 7 [] d = "8" -> 8 [] d = "9" -> 9]

IsDigit(c) == c \in DOMAIN DigitOf
DigitVal(c) == DigitOf[c]
AllDigits(s) == \A i \in 1..Len(s) : IsDigit(CharAt(s, i))

RECURSIVE NatVal(_)
\* the value of a string of decimal digits
NatVal(s) ==
    IF Len(s) = 0 THEN 0
    ELSE 10 * NatVal(SubSeq(s, 1, Len(s) - 1)) + DigitVal(CharAt(s, Len(s)))

\* the text without its sign, and the sign
Unsigned(s) == IF Len(s) > 0 /\ CharAt(s, 1) \in {"+", "-"} THEN SubSeq(s, 2, Len(s)) ELSE s
Sign(s) == IF Len(s) > 0 /\ CharAt(s, 1) = "-" THEN 0 - 1 ELSE 1

\* int(s) succeeds: optional blanks, optional sign, decimal digits
IsIntText(s) == LET u == Unsigned(Strip(s)) IN Len(u) > 0 /\ AllDigits(u)
IntOfText(s) == Num(Sign(Strip(s)) * NatVal(Unsigned(Strip(s))))

\* position of the first '.' of s, or 0
DotAt(s) ==
    IF \E i \in 1..Len(s) : CharAt(s, i) = "."
    THEN CHOOSE i \in 1..Len(s) :
            CharAt(s, i) = "." /\ \A j \in 1..(i - 1) : CharAt(s, j) # "."
    ELSE 0

\* float(s) succeeds: optional blanks, optional sign, digits with at most
\* one decimal point (exponents, inf and nan spellings are not modelled)
IsFloatText(s) ==
    LET u == Unsigned(Strip(s))
        d == DotAt(u)
        ip == IF d = 0 THEN u ELSE SubSeq(u, 1, d - 1)
        fp == IF d = 0 THEN "" ELSE SubSeq(u, d + 1, Len(u))
    IN AllDigits(ip) /\ AllDigits(fp) /\ Len(ip) + Len(fp) > 0

FloatOfText(s) ==
    LET u == Unsigned(Strip(s))
        d == DotAt(u)
        ip == IF d = 0 THEN u ELSE SubSeq(u, 1, d - 1)
        fp == IF d = 0 THEN "" ELSE SubSeq(u, d + 1, Len(u))
    IN Norm(Sign(Strip(s)) * NatVal(ip \o fp), 0 - Len(fp))

-----------------------------------------------------------------------------
(* pandas Series operations.  An operation that can raise yields           *)
(* [ok |-> FALSE, exc |-> ...] and otherwise [ok |-> TRUE, values |-> ...].*)

Ok(values) == [ok |-> TRUE, values |-> values]
Raise(exc) == [ok |-> FALSE, exc |-> exc]

\* a key of Series.replace(dict) matches a cell: a null key matches every
\* missing cell, any other key the cells equal to it
KeyHits(key, cell) == IF IsNull(key) THEN IsNull(cell) ELSE cell = key

ReplaceCell(cell, mapping) ==
    IF \E p \in mapping : KeyHits(p[1], cell)
    THEN (CHOOSE p \in mapping : KeyHits(p[1], cell))[2]
    ELSE cell

\* Series.replace(dict): mapping is the set of <<key, value>> items; a cell
\* that matches no key is left as it is
SeriesReplace(s, mapping) == [i \in 1..Len(s) |-> ReplaceCell(s[i], mapping)]

\* a cast that removes the cells that are not a category
AsCategory_drop_unmapped(s, categories) == SelectSeq(s, LAMBDA c : c \in categories)

\* Series.astype(CategoricalDtype(categories)): a value that is not a
\* category becomes NaN
AsCategory(s, categories) ==
    [i \in 1..Len(s) |-> IF s[i] \in categories THEN s[i] ELSE NaN]

\* notnull that also takes the empty string for null
notnull_nonempty(s) == [i \in 1..Len(s) |-> Bool(~IsNull(s[i]) /\ s[i] # Str(""))]

\* Series.notnull()
notnull(s) == [i \in 1..Len(s) |-> Bool(~IsNull(s[i]))]

RECURSIVE StrReplaceFirst(_, _, _, _)
\* the replacement of the first occurrence of pat only
StrReplaceFirst(s, pat, repl, case) ==
    IF Len(s) < Len(pat) THEN s
    ELSE LET head == SubSeq(s, 1, Len(pat))
             hit == IF case THEN head = pat ELSE Lower(head) = Lower(pat)
         IN IF hit THEN repl \o SubSeq(s, Len(pat) + 1, Len(s))
            ELSE CharAt(s, 1) \o StrReplaceFirst(SubSeq(s, 2, Len(s)), pat, repl, case)

\* a str.replace that stops after the first occurrence in each cell
SeriesStrReplace_first_only(s, pat, repl, case) ==
    [i \in 1..Len(s) |->
        IF IsStr(s[i]) THEN Str(StrReplaceFirst(s[i][2], pat, repl, case)) ELSE NaN]

\* Series.str.replace(pat, repl, case): a cell that is not a str becomes NaN
SeriesStrReplace(s, pat, repl, case) ==
    [i \in 1..Len(s) |->
        IF IsStr(s[i]) THEN Str(StrReplace(s[i][2], pat, repl, case)) ELSE NaN]

\* pd.to_numeric(s, errors="coerce")
to_numeric(s) ==
    [i \in 1..Len(s) |->
        IF IsNum(s[i]) THEN s[i]
        ELSE IF IsStr(s[i]) /\ IsFloatText(s[i][2]) THEN FloatOfText(s[i][2])
        ELSE NaN]

\* the first index at which the conversion of a cell raises, or 0; bad[i]
\* tells whether the cell at i raises
FirstBad(bad) ==
    IF \E i \in 1..Len(bad) : bad[i]
    THEN CHOOSE i \in 1..Len(bad) : bad[i] /\ \A j \in 1..(i - 1) : ~bad[j]
    ELSE 0

\* int(v) raises ValueError (text that is no integer, NaN)
IntValueError(c) == (IsStr(c) /\ ~IsIntText(c[2])) \/ c = NaN

\* Series.apply(lambda v: int(v) if v is not None else v)
ApplyInt(s) ==
    IF FirstBad([i \in 1..Len(s) |-> IntValueError(s[i])]) # 0 THEN Raise("ValueError")
    ELSE Ok([i \in 1..Len(s) |->
                IF s[i] = None THEN None
                ELSE IF IsStr(s[i]) THEN IntOfText(s[i][2])
                ELSE IF IsBool(s[i]) THEN Num(IF s[i][2] THEN 1 ELSE 0)
                ELSE s[i]])

\* float(v) raises ValueError
FloatValueError(c) == IsStr(c) /\ ~IsFloatText(c[2])

\* Series.astype("float64"): None and NaN become NaN
AstypeFloat64(s) ==
    IF FirstBad([i \in 1..Len(s) |-> FloatValueError(s[i])]) # 0 THEN Raise("ValueError")
    ELSE Ok([i \in 1..Len(s) |->
                IF IsNull(s[i]) THEN NaN
                ELSE IF IsStr(s[i]) THEN FloatOfText(s[i][2])
                ELSE IF IsBool(s[i]) THEN Num(IF s[i][2] THEN 1 ELSE 0)
                ELSE s[i]])

\* Series.astype("int64"): None raises TypeError, text that is no integer
\* and NaN raise ValueError; the first offending cell decides
IntCastError(c) == c = None \/ IntValueError(c)

AstypeInt64(s) ==
    LET bad == FirstBad([i \in 1..Len(s) |-> IntCastError(s[i])])
    IN IF bad # 0
       THEN Raise(IF s[bad] = None THEN "TypeError" ELSE "ValueError")
       ELSE Ok([i \in 1..Len(s) |->
                IF IsStr(s[i]) THEN IntOfText(s[i][2])
                ELSE IF IsBool(s[i]) THEN Num(IF s[i][2] THEN 1 ELSE 0)
                ELSE s[i]])

\* lambda v: v / 1e3 if v > 1e3 else v    (NaN > 1e3 is False)
KwThreshold == 1000

\* the correction with the threshold itself taken for watts (v >= 1e3)
UnitCorrect_at_threshold(v) ==
    IF IsNum(v) /\ (NumGT(v, KwThreshold) \/ v = Num(KwThreshold)) THEN NumDiv1000(v) ELSE v

UnitCorrect(v) == IF IsNum(v) /\ NumGT(v, KwThreshold) THEN NumDiv1000(v) ELSE v

StrCats(S) == {Str(x) : x \in S}
NumCats(lo, hi) == {Num(n) : n \in lo..hi}

YesNo == {<<Str("Yes"), Bool(TRUE)>>, <<Str("No"), Bool(FALSE)>>}

-----------------------------------------------------------------------------
(* The column rules of a survey year.  A rule's outcome is one of          *)
(*   [op |-> "set", values |-> Series]    df[column] = ...                 *)
(*   [op |-> "drop"]                      df.drop(column, axis=1)          *)
(*   [op |-> "pass"]                      pass                             *)
(*   [op |-> "move", to |-> name, values |-> Series]                       *)
(*                                        df[to] = ...; df.drop(column)    *)
(*   [op |-> "raise", exc |-> name]       the rule raises                  *)

Set(values) == [op |-> "set", values |-> values]
SetOrRaise(r) == IF r.ok THEN Set(r.values) ELSE [op |-> "raise", exc |-> r.exc]
Drop == [op |-> "drop"]
\* a rule that fails on the column instead of passing it through
Pass_raise == [op |-> "raise", exc |-> "UnknownColumnRule"]
Pass == [op |-> "pass"]

\* the map of the count tokens without its None key
Counts0to5_without_null ==
    {<<Str("1"), Num(1)>>, <<Str("2"), Num(2)>>, <<Str("3"), Num(3)>>,
     <<Str("4"), Num(4)>>, <<Str("5 or more"), Num(5)>>}

Counts0to5 ==
    {<<None, Num(0)>>, <<Str("1"), Num(1)>>, <<Str("2"), Num(2)>>, <<Str("3"), Num(3)>>,
     <<Str("4"), Num(4)>>, <<Str("5 or more"), Num(5)>>}

IncomeCategories ==
    StrCats({"Less than $10,000", "$10,000 - $19,999", "$20,000 - $34,999",
             "$35,000 - $49,999", "$50,000 - $74,999", "$75,000 - $99,999",
             "$100,000 - $149,999", "$150,000 - $299,000", "$300,000 - $1,000,000",
             "more than $1,000,000"})

EducationCategories ==
    StrCats({"High School graduate", "Some college/trade/vocational school",
             "College graduate", "Postgraduate degree"})

\* the branch of the 2013 if/elif chain that a column name selects, named by
\* the source line of its condition: the first condition that holds
Branch2013(column) ==
    IF column = "primary_residence" THEN 126
    ELSE IF column = "number_floors" THEN 128
    ELSE IF column = "year_moved_into_house" THEN 133
    ELSE IF column = "month_moved_into_house" THEN 138
    ELSE IF column = "year_house_constructed" THEN 144
    ELSE IF column = "house_num_rooms" THEN 150
    ELSE IF column = "house_ceiling_height" THEN 155
    ELSE IF column = "house_square_feet" THEN 157
    ELSE IF startswith(column, "spend_time_at_home_") THEN 159
    ELSE IF startswith(column, "ethnicity_") THEN 161
    ELSE IF startswith(column, "sex_") THEN 163
    ELSE IF startswith(column, "residents_") THEN 169
    ELSE IF column = "education_level" THEN 175
    ELSE IF column = "total_annual_income" THEN 182
    ELSE IF column = "smartphone_own" THEN 194
    ELSE IF column = "tablet_own" THEN 196
    ELSE IF column = "pv_system_own" THEN 198
    ELSE IF column = "pv_system_size" THEN 200
    ELSE IF column = "electricity_used_monthly" THEN 212
    ELSE IF column = "gas_used_monthly" THEN 214
    ELSE IF column = "retrofits" THEN 216
    ELSE IF column = "retrofits_detail" THEN 218
    ELSE IF column = "retrofits_reason" THEN 220
    ELSE IF startswith(column, "appliance_") THEN 222
    ELSE IF column = "irrigation_system" THEN 229
    ELSE IF column = "cooking_weekdays_times" THEN 231
    ELSE IF column = "cooking_weekends_times" THEN 235
    ELSE IF startswith(column, "cooking_") THEN 239
    ELSE IF startswith(column, "blinds_") THEN 241
    ELSE IF column = "thermostat_settings" THEN 245
    ELSE IF column = "tv_hours" THEN 252
    ELSE IF column = "care_energy_cost" THEN 260
    ELSE IF column = "reduce_energy_cost" THEN 262
    ELSE IF column = "reduce_energy_yes" THEN 264
    ELSE IF column = "modify_routines" THEN 266
    ELSE IF endswith(column, "_brand") \/ endswith(column, "_models") THEN 268
    ELSE IF startswith(column, "hvac_") THEN 270
    ELSE IF startswith(column, "compressor1_") THEN 272
    ELSE IF startswith(column, "compressor2_") THEN 274
    ELSE IF startswith(column, "compressor3_") THEN 276
    ELSE IF startswith(column, "air_handler1_") THEN 278
    ELSE IF startswith(column, "air_handler2_") THEN 280
    ELSE IF startswith(column, "heating_") THEN 282
    ELSE IF startswith(column, "temp_") THEN 284
    ELSE IF column = "pets" THEN 286
    ELSE IF column = "programmable_thermostat_currently_programmed" THEN 288
    ELSE IF column = "programmable_thermostat_difficultly" THEN 290
    ELSE IF column = "ac_comfortability" THEN 295
    ELSE IF column = "house_drafty" THEN 300
    ELSE IF startswith(column, "ac_cooling_") THEN 305
    ELSE IF column = "change_ac_filters" THEN 307
    ELSE IF column = "ac_service_package" THEN 314
    ELSE IF startswith(column, "ac_service_package_cost") THEN 316
    ELSE IF column = "ac_service_date" THEN 318
    ELSE IF column = "water_heater_tankless" THEN 324
    ELSE IF startswith(column, "light_bulbs_") THEN 326
    ELSE IF startswith(column, "electronic_devices_") THEN 328
    ELSE IF endswith(column, "_number") THEN 334
    ELSE IF column = "recessed_lights_location" THEN 336
    ELSE IF column = "track_lights_location" THEN 338
    ELSE 340

\* the 2013 text cleaning of pv_system_size, lines 201-211
PvSpecificReplacements2013 ==
    {<<Str("5kw I think"), Norm(5, 0)>>, <<Str("8060 Watts"), Norm(8060, 0 - 3)>>,
     <<Str("20W (solar powered attic fan)"), Norm(20, 0 - 3)>>}

\* the 2013 cleaning with the specific replacements made on the raw text,
\* before blanks and 'kw' are removed
PvSystemSize2013_replace_first(s) ==
    LET replaced == SeriesReplace(s, PvSpecificReplacements2013)
        cleaned == [i \in 1..Len(s) |->
                      IF IsNum(replaced[i]) THEN replaced[i]
                      ELSE SeriesStrReplace(SeriesStrReplace(<<replaced[i]>>, " ", "", TRUE),
                                            "kw", "", FALSE)[1]]
        str_to_numeric == to_numeric(cleaned)
    IN [i \in 1..Len(s) |-> UnitCorrect(str_to_numeric[i])]

PvSystemSize2013(s) ==
    LET cleaned == SeriesReplace(
                       SeriesStrReplace(SeriesStrReplace(s, " ", "", TRUE), "kw", "", FALSE),
                       PvSpecificReplacements2013)
        str_to_numeric == to_numeric(cleaned)
    IN [i \in 1..Len(s) |-> UnitCorrect(str_to_numeric[i])]

\* the body of the branch that Branch2013 selects, applied to the column s
Rule2013(column, s) ==
    LET b == Branch2013(column)
    IN CASE b \in {126, 194, 196, 198, 216, 229, 260, 262, 266, 286, 314, 324} ->
                Set(SeriesReplace(s, YesNo))
         [] b = 128 ->
                Set(AsCategory(SeriesReplace(s, {<<Str("One"), Num(1)>>, <<Str("Two"), Num(2)>>,
                                                 <<Str("Three"), Num(3)>>, <<Str("Four"), Num(4)>>}),
                               NumCats(1, 4)))
         [] b = 133 ->
                LET r == ApplyInt(s)
                IN SetOrRaise(IF r.ok THEN Ok(AsCategory(r.values, NumCats(1958, 2017))) ELSE r)
         [] b = 138 ->
                Set(AsCategory(s, StrCats({"January", "February", "March", "April", "May",
                                           "June", "July", "August", "September", "October",
                                           "November", "December"})))
         [] b = 144 ->
                LET r == ApplyInt(SeriesReplace(s, {<<Str("1930 or earlier"), Str("1930")>>}))
                IN SetOrRaise(IF r.ok THEN Ok(AsCategory(r.values, NumCats(1930, 2017))) ELSE r)
         [] b = 150 ->
                LET r == ApplyInt(s)
                IN SetOrRaise(IF r.ok THEN Ok(AsCategory(r.values, NumCats(1, 16))) ELSE r)
         [] b \in {155, 218, 264, 268, 272, 274, 276, 278, 280, 316, 334, 336, 338} -> Drop
         [] b = 157 -> SetOrRaise(AstypeFloat64(s))
         [] b \in {159, 161, 239, 270, 282, 305, 326} -> Set(notnull(s))
         [] b \in {163, 169, 328} ->
                Set(AsCategory(SeriesReplace(s, Counts0to5), NumCats(0, 5)))
         [] b = 175 -> Set(AsCategory(s, EducationCategories))
         [] b = 182 ->
                Set(AsCategory(SeriesStrReplace(SeriesStrReplace(s, "-", ",", TRUE),
                                                " , ", " - ", TRUE),
                               IncomeCategories))
         [] b = 200 -> Set(PvSystemSize2013(s))
         [] b \in {212, 214, 340} -> Pass
         [] b = 220 -> Set(SeriesReplace(s, YesNo \cup {<<Str("N/A"), None>>}))
         [] b = 222 ->
                Set(AsCategory(SeriesReplace(s, {<<Str("N/A"), None>>}),
                               StrCats({"rarely", "once or twice a month",
                                        "once or twice a week", "several times a week",
                                        "daily basis"})))
         [] b \in {231, 235} ->
                Set(AsCategory(s, StrCats({"None", "Less than 1 hour", "An hour or more"})))
         [] b = 241 ->
                Set(AsCategory(s, StrCats({"Rarely or never", "Some days", "Most days"})))
         [] b = 245 ->
                Set(AsCategory(s, StrCats({"We are generally in agreement",
                                           "Our preferences vary 1-2 degrees Fahrenheit",
                                           "Our preferences vary 3-5 degrees Fahrenheit",
                                           "Our preferences vary more than 5 degrees Fahrenheit"})))
         [] b = 252 ->
                Set(AsCategory(SeriesReplace(s, {<<None, Num(0)>>, <<Str("1"), Num(1)>>,
                                                 <<Str("2"), Num(2)>>, <<Str("3"), Num(3)>>,
                                                 <<Str("4"), Num(4)>>, <<Str("5"), Num(5)>>,
                                                 <<Str("6"), Num(6)>>, <<Str("7"), Num(7)>>,
                                                 <<Str("8"), Num(8)>>, <<Str("9"), Num(9)>>,
                                                 <<Str("10"), Num(10)>>,
                                                 <<Str("10 or more"), Num(11)>>}),
                               NumCats(0, 11)))
         [] b = 284 -> Set(to_numeric(s))
         [] b = 288 -> Set(SeriesReplace(s, YesNo \cup {<<Str("I dont know"), None>>}))
         [] b = 290 ->
                [op |-> "move", to |-> "programmable_thermostat_difficulty",
                 values |-> AsCategory(s, StrCats({"Havent tried", "Easy",
                                                   "Moderately difficult", "Very difficult"}))]
         [] b = 295 ->
                Set(AsCategory(SeriesReplace(s, {<<Str("1"), Num(1)>>, <<Str("2"), Num(2)>>,
                                                 <<Str("3"), Num(3)>>, <<Str("4"), Num(4)>>,
                                                 <<Str("5"), Num(5)>>}),
                               NumCats(1, 5)))
         [] b = 300 ->
                Set(AsCategory(SeriesReplace(s, {<<Str("I dont know/Havent noticed"), None>>}),
                               StrCats({"No", "Somewhat", "Yes"})))
         [] b = 307 ->
                Set(AsCategory(SeriesReplace(s, {<<Str("There is an HVAC filter!?"), None>>}),
                               StrCats({"Every year or greater", "Every 6-12 months",
                                        "Every 4-6 months", "Every 2-3 months",
                                        "At least once every month"})))
         [] b = 318 ->
                Set(AsCategory(SeriesReplace(s, {<<Str("I dont know"), None>>}),
                               StrCats({"Less than a year ago", "1-2 years ago",
                                        "2-3 years ago", "3-5 years ago", "Never"})))

\* the 2014 chain with the electronic_devices_ prefix tested before the
\* exact name electronic_devices_on_other
Branch2014_prefix_first(column) ==
    IF column = "status" THEN 403
    ELSE IF startswith(column, "spend_time_at_home_") THEN 407
    ELSE IF startswith(column, "ethnicity_") THEN 410
    ELSE IF startswith(column, "hvac_") THEN 413
    ELSE IF startswith(column, "residents_") THEN 416
    ELSE IF column = "education_level" THEN 418
    ELSE IF column = "total_annual_income" THEN 425
    ELSE IF column = "pv_system_own" THEN 436
    ELSE IF column = "pv_system_size" THEN 438
    ELSE IF column = "pv_system_reason" THEN 453
    ELSE IF column = "pv_system_satisfied" THEN 455
    ELSE IF startswith(column, "pv_system_features_") THEN 461
    ELSE IF startswith(column, "pv_system_common_") THEN 463
    ELSE IF startswith(column, "pv_neg_factors_") THEN 465
    ELSE IF startswith(column, "pv_pos_") THEN 468
    ELSE IF column = "pv_owner_response" THEN 471
    ELSE IF column = "retrofits" THEN 473
    ELSE IF column = "retrofits_detail" THEN 475
    ELSE IF column = "irrigation_system" THEN 477
    ELSE IF column = "ceiling_fans_count" THEN 479
    ELSE IF column = "compressors_count" THEN 483
    ELSE IF startswith(column, "compressor1_") THEN 487
    ELSE IF startswith(column, "compressor2_") THEN 489
    ELSE IF startswith(column, "compressor3_") THEN 491
    ELSE IF startswith(column, "temp_summer_") THEN 493
    ELSE IF startswith(column, "temp_winter_") THEN 496
    ELSE IF column = "thermostats_brand" THEN 498
    ELSE IF column = "programmable_thermostat_currently_programmed" THEN 500
    ELSE IF column = "programmable_thermostat_difficulty" THEN 502
    ELSE IF column = "ac_service_package" THEN 508
    ELSE IF startswith(column, "electronic_devices_") THEN 512
    ELSE IF column = "electronic_devices_on_other" THEN 510
    ELSE 514

\* the branch of the 2014 if/elif chain that a column name selects
Branch2014(column) ==
    IF column = "status" THEN 403
    ELSE IF startswith(column, "spend_time_at_home_") THEN 407
    ELSE IF startswith(column, "ethnicity_") THEN 410
    ELSE IF startswith(column, "hvac_") THEN 413
    ELSE IF startswith(column, "residents_") THEN 416
    ELSE IF column = "education_level" THEN 418
    ELSE IF column = "total_annual_income" THEN 425
    ELSE IF column = "pv_system_own" THEN 436
    ELSE IF column = "pv_system_size" THEN 438
    ELSE IF column = "pv_system_reason" THEN 453
    ELSE IF column = "pv_system_satisfied" THEN 455
    ELSE IF startswith(column, "pv_system_features_") THEN 461
    ELSE IF startswith(column, "pv_system_common_") THEN 463
    ELSE IF startswith(column, "pv_neg_factors_") THEN 465
    ELSE IF startswith(column, "pv_pos_") THEN 468
    ELSE IF column = "pv_owner_response" THEN 471
    ELSE IF column = "retrofits" THEN 473
    ELSE IF column = "retrofits_detail" THEN 475
    ELSE IF column = "irrigation_system" THEN 477
    ELSE IF column = "ceiling_fans_count" THEN 479
    ELSE IF column = "compressors_count" THEN 483
    ELSE IF startswith(column, "compressor1_") THEN 487
    ELSE IF startswith(column, "compressor2_") THEN 489
    ELSE IF startswith(column, "compressor3_") THEN 491
    ELSE IF startswith(column, "temp_summer_") THEN 493
    ELSE IF startswith(column, "temp_winter_") THEN 496
    ELSE IF column = "thermostats_brand" THEN 498
    ELSE IF column = "programmable_thermostat_currently_programmed" THEN 500
    ELSE IF column = "programmable_thermostat_difficulty" THEN 502
    ELSE IF column = "ac_service_package" THEN 508
    ELSE IF column = "electronic_devices_on_other" THEN 510
    ELSE IF startswith(column, "electronic_devices_") THEN 512
    ELSE 514

EmptyToNone == {<<Str(""), None>>}

\* the 2014 text cleaning of pv_system_size, lines 439-452
PvSystemSize2014(s) ==
    LET s1 == SeriesStrReplace(s, "kw", "", FALSE)
        s2 == SeriesStrReplace(s1, "\"", "", TRUE)
        s3 == SeriesStrReplace(s2, ",", "", TRUE)
        s4 == SeriesStrReplace(s3, " ", "", TRUE)
        s5 == SeriesStrReplace(s4, "DC", "", TRUE)
        cleaned == SeriesReplace(s5, {<<Str(""), None>>, <<Str("NA"), None>>,
                                      <<Str("n/a"), None>>})
        str_to_numeric == to_numeric(cleaned)
    IN [i \in 1..Len(s) |-> UnitCorrect(str_to_numeric[i])]

\* the body of the branch that Branch2014 selects, applied to the column s
Rule2014(column, s) ==
    LET b == Branch2014(column)
    IN CASE b = 403 -> Set(AsCategory(s, StrCats({"Complete", "Partial"})))
         [] b \in {407, 410, 413, 465, 468} -> Set(notnull(SeriesReplace(s, EmptyToNone)))
         [] b \in {416, 512} ->
                SetOrRaise(AstypeInt64(SeriesReplace(s, {<<Str("None"), Num(0)>>,
                                                         <<Str(""), Num(0)>>,
                                                         <<Str("5 or more"), Num(5)>>})))
         [] b = 418 -> Set(AsCategory(s, EducationCategories))
         [] b = 425 ->
                Set(AsCategory(SeriesReplace(SeriesStrReplace(s, "\"\"\"", "", TRUE),
                                             EmptyToNone),
                               IncomeCategories))
         [] b = 436 -> Set([i \in 1..Len(s) |-> Bool(s[i] = Str("Yes"))])
         [] b = 438 -> Set(PvSystemSize2014(s))
         [] b \in {453, 461, 463, 471, 475, 487, 489, 491, 498, 510} -> Drop
         [] b = 455 ->
                Set(AsCategory(SeriesReplace(s, EmptyToNone),
                               StrCats({"Very dissatisfied", "Somewhat dissatisfied",
                                        "Neutral", "Somewhat satisfied", "Very"})))
         [] b \in {473, 477, 508} -> Set(SeriesReplace(s, EmptyToNone \cup YesNo))
         [] b \in {479, 483} ->
                SetOrRaise(AstypeInt64(SeriesReplace(s, {<<Str(""), Str("0")>>})))
         [] b = 493 -> SetOrRaise(AstypeFloat64(SeriesReplace(s, EmptyToNone)))
         [] b = 496 -> Set(to_numeric(s))
         [] b = 500 ->
                Set(SeriesReplace(s, EmptyToNone \cup YesNo
                                        \cup {<<Str("\"\"\"I don't know\"\"\""), None>>}))
         [] b = 502 ->
                Set(AsCategory(SeriesReplace(s, EmptyToNone
                                        \cup {<<Str("\"\"\"Haven't tried\"\"\""), None>>}),
                               StrCats({"Easy", "Moderately difficult", "Very difficult"})))
         [] b = 514 -> Pass

-----------------------------------------------------------------------------
(* The survey-year normalizers.                                            *)

\* df.drop(column, axis=1)
DropColumn(df, column) ==
    [columns |-> SelectSeq(df.columns, LAMBDA c : c # column),
     data |-> [c \in (DOMAIN df.data) \ {column} |-> df.data[c]]]

\* df[column] = values: an existing column is overwritten in place, a new
\* one is appended
SetColumn(df, column, values) ==
    [columns |-> IF column \in DOMAIN df.data THEN df.columns
                 ELSE Append(df.columns, column),
     data |-> [c \in (DOMAIN df.data) \cup {column} |->
                  IF c = column THEN values ELSE df.data[c]]]

NRows(df) == Len(df.data[df.columns[1]])

\* _merge_foundation_columns without the test of the slab column in its
\* second branch
_merge_foundation_columns_pier_only(row) ==
    IF row.foundation_pier_beam = Str("") \/ row.foundation_pier_beam = None
    THEN (IF row.foundation_slab = Str("Slab") THEN Str("Slab") ELSE None)
    ELSE IF row.foundation_pier_beam = Str("Pier and beam")
    THEN Str("Pier and beam")
    ELSE Str("Both")

_merge_foundation_columns(row) ==
    IF row.foundation_pier_beam = Str("") \/ row.foundation_pier_beam = None
    THEN (IF row.foundation_slab = Str("Slab") THEN Str("Slab") ELSE None)
    ELSE IF row.foundation_pier_beam = Str("Pier and beam")
            /\ (row.foundation_slab = Str("") \/ row.foundation_slab = None)
    THEN Str("Pier and beam")
    ELSE Str("Both")

FoundationRow(df, i) ==
    [foundation_pier_beam |-> df.data["foundation_pier_beam"][i],
     foundation_slab |-> df.data["foundation_slab"][i]]

\* the merge that drops only the pier and beam column
MergeFoundation_keep_slab(df) ==
    LET merged == [i \in 1..NRows(df) |-> _merge_foundation_columns(FoundationRow(df, i))]
        foundation == AsCategory(merged, StrCats({"Pier and beam", "Slab", "Both"}))
    IN DropColumn(SetColumn(df, "foundation", foundation), "foundation_pier_beam")

\* lines 119-123 and 396-400: df["foundation"] = df.apply(...).astype(dtype),
\* then both source columns are dropped
MergeFoundation(df) ==
    LET merged == [i \in 1..NRows(df) |-> _merge_foundation_columns(FoundationRow(df, i))]
        foundation == AsCategory(merged, StrCats({"Pier and beam", "Slab", "Both"}))
    IN DropColumn(DropColumn(SetColumn(df, "foundation", foundation),
                             "foundation_pier_beam"),
                  "foundation_slab")

Rule(year, column, s) == IF year = 2013 THEN Rule2013(column, s) ELSE Rule2014(column, s)
Branch(year, column) == IF year = 2013 THEN Branch2013(column) ELSE Branch2014(column)

RECURSIVE ColumnLoop_skip_after_drop(_, _, _, _)
\* a loop over the live column list: dropping the current column makes the
\* iteration skip the column that follows it
ColumnLoop_skip_after_drop(year, df, todo, visited) ==
    IF Len(todo) = 0 THEN [status |-> "ok", df |-> df, visited |-> visited]
    ELSE LET column == Head(todo)
             o == Rule(year, column, df.data[column])
             seen == Append(visited, <<column, Branch(year, column)>>)
         IN IF o.op = "raise"
            THEN [status |-> "raise", exc |-> o.exc, visited |-> seen]
            ELSE ColumnLoop_skip_after_drop(year,
                            CASE o.op = "set" -> SetColumn(df, column, o.values)
                              [] o.op = "drop" -> DropColumn(df, column)
                              [] o.op = "move" ->
                                    DropColumn(SetColumn(df, o.to, o.values), column)
                              [] o.op = "pass" -> df,
                            IF o.op \in {"drop", "move"} /\ Len(todo) > 1
                            THEN Tail(Tail(todo)) ELSE Tail(todo),
                            seen)

RECURSIVE ColumnLoop(_, _, _, _)
\* "for column in df": the columns are those the table has when the loop
\* starts (the iterator holds that index; drops and additions inside the
\* loop build a new one).  visited lists <<column, branch>> in order.
ColumnLoop(year, df, todo, visited) ==
    IF Len(todo) = 0 THEN [status |-> "ok", df |-> df, visited |-> visited]
    ELSE LET column == Head(todo)
             o == Rule(year, column, df.data[column])
             seen == Append(visited, <<column, Branch(year, column)>>)
         IN IF o.op = "raise"
            THEN [status |-> "raise", exc |-> o.exc, visited |-> seen]
            ELSE ColumnLoop(year,
                            CASE o.op = "set" -> SetColumn(df, column, o.values)
                              [] o.op = "drop" -> DropColumn(df, column)
                              [] o.op = "move" ->
                                    DropColumn(SetColumn(df, o.to, o.values), column)
                              [] o.op = "pass" -> df,
                            Tail(todo), seen)

\* read_survey_<year>_all_participants_table applied to the table read
Normalize(year, raw) ==
    LET df == MergeFoundation(raw) IN ColumnLoop(year, df, df.columns, <<>>)

-----------------------------------------------------------------------------
(* The raw survey tables the model reads: the two foundation columns and   *)
(* one further column, with 1..MaxRows rows of raw cells (str or None),    *)
(* and the end-to-end scenario row of the specification.                   *)

Cells(S) == {None} \cup {Str(x) : x \in S}

YesNoSamples == Cells({"", "Yes", "No", "N/A", "I dont know", "Maybe"})
CountSamples == Cells({"", "1", "4", "5 or more", "None", "7"})
FlagSamples == Cells({"", "Monday"})
TextSamples == Cells({"", "free text"})
IncomeSamples ==
    Cells({"", "$10,000 - $19,999", "$10,000 , $19,999", "\"\"\"$10,000 - $19,999\"\"\"",
           "more than $1,000,000", "a lot"})
EducationSamples == Cells({"", "College graduate", "Kindergarten"})
YearSamples == Cells({"", "1930 or earlier", "1957", "1995", "2017", "2018", "unknown"})
FloatSamples == Cells({"", "72", "72.5", "warm"})

\* <<column, raw values it may hold>> for the 2013 table
Samples2013 ==
    {<<c, YesNoSamples>> : c \in {"primary_residence", "smartphone_own", "tablet_own",
        "pv_system_own", "retrofits", "retrofits_reason", "irrigation_system",
        "care_energy_cost", "reduce_energy_cost", "modify_routines", "pets",
        "programmable_thermostat_currently_programmed", "ac_service_package",
        "water_heater_tankless", "house_drafty"}}
    \cup {<<c, CountSamples>> : c \in {"sex_males", "residents_under_5",
        "electronic_devices_tv", "ac_comfortability", "house_num_rooms"}}
    \cup {<<"tv_hours", CountSamples \cup Cells({"10", "10 or more"})>>}
    \cup {<<c, FlagSamples>> : c \in {"spend_time_at_home_monday", "ethnicity_asian",
        "cooking_weekdays_morning", "hvac_central", "heating_gas", "ac_cooling_window",
        "light_bulbs_led"}}
    \cup {<<c, TextSamples>> : c \in {"house_ceiling_height", "electricity_used_monthly",
        "gas_used_monthly", "retrofits_detail", "reduce_energy_yes", "thermostats_brand",
        "refrigerator_models", "compressor1_brand", "compressor2_age", "compressor3_age",
        "air_handler1_age", "air_handler2_age", "ac_service_package_cost",
        "recessed_lights_number", "recessed_lights_location", "track_lights_location",
        "dataid"}}
    \cup {<<c, YearSamples>> : c \in {"year_moved_into_house", "year_house_constructed"}}
    \cup {<<c, FloatSamples>> : c \in {"house_square_feet", "temp_summer_weekday_workday"}}
    \cup {<<"number_floors", Cells({"", "One", "Four", "Five"})>>,
          <<"month_moved_into_house", Cells({"", "January", "Smarch"})>>,
          <<"education_level", EducationSamples>>,
          <<"total_annual_income", IncomeSamples>>,
          <<"pv_system_size", Cells({"", "5kw I think", "8060 Watts",
                "20W (solar powered attic fan)", "5", "5.5 kW", "3500", "1000", "unknown"})>>,
          <<"appliance_dishwasher", Cells({"", "N/A", "rarely", "daily basis", "never"})>>,
          <<"cooking_weekdays_times", Cells({"", "None", "An hour or more", "All day"})>>,
          <<"cooking_weekends_times", Cells({"", "None", "Less than 1 hour", "All day"})>>,
          <<"blinds_summer", Cells({"", "Some days", "Always"})>>,
          <<"thermostat_settings", Cells({"", "We are generally in agreement", "No idea"})>>,
          <<"programmable_thermostat_difficultly", Cells({"", "Havent tried", "Easy", "Hard"})>>,
          <<"change_ac_filters", Cells({"", "Every 6-12 months",
                "There is an HVAC filter!?", "Never"})>>,
          <<"ac_service_date", Cells({"", "Never", "I dont know", "Last week"})>>}

\* <<column, raw values it may hold>> for the 2014 table
Samples2014 ==
    {<<c, YesNoSamples \cup {Str("\"\"\"I don't know\"\"\"")}>> : c \in {"pv_system_own",
        "retrofits", "irrigation_system", "programmable_thermostat_currently_programmed",
        "ac_service_package"}}
    \cup {<<c, CountSamples>> : c \in {"residents_under_5", "electronic_devices_tv",
        "ceiling_fans_count", "compressors_count"}}
    \cup {<<c, FlagSamples>> : c \in {"spend_time_at_home_monday", "ethnicity_asian",
        "hvac_central", "pv_neg_factors_cost", "pv_pos_savings"}}
    \cup {<<c, TextSamples>> : c \in {"pv_system_reason", "pv_system_features_monitor",
        "pv_system_common_issue", "pv_owner_response", "retrofits_detail",
        "compressor1_brand", "compressor2_age", "compressor3_age", "thermostats_brand",
        "electronic_devices_on_other", "dataid"}}
    \cup {<<c, FloatSamples>> : c \in {"temp_summer_weekday_workday",
        "temp_winter_weekday_workday"}}
    \cup {<<"status", Cells({"", "Complete", "Partial", "Started"})>>,
          <<"education_level", EducationSamples>>,
          <<"total_annual_income", IncomeSamples>>,
          <<"pv_system_size", Cells({"", "NA", "n/a", "5", "5.5 kW DC", "\"6,000\"",
                "3500", "1000", "unknown"})>>,
          <<"pv_system_satisfied", Cells({"", "Neutral", "Very", "Very satisfied"})>>,
          <<"programmable_thermostat_difficulty", Cells({"", "Easy",
                "\"\"\"Haven't tried\"\"\"", "Hard"})>>}

Samples(year) == IF year = 2013 THEN Samples2013 ELSE Samples2014

FoundationPierSamples == Cells({"", "Pier and beam", "Yes"})
FoundationSlabSamples == Cells({"", "Slab", "Yes"})

\* a raw table: the first row holds the foundation pair (p, s), every
\* further row ('', 'Slab'); column holds cells
RawTable(p, s, column, cells) ==
    [columns |-> <<"foundation_pier_beam", "foundation_slab", column>>,
     data |-> [c \in {"foundation_pier_beam", "foundation_slab", column} |->
                  IF c = "foundation_pier_beam"
                  THEN [i \in 1..Len(cells) |-> IF i = 1 THEN p ELSE Str("")]
                  ELSE IF c = "foundation_slab"
                  THEN [i \in 1..Len(cells) |-> IF i = 1 THEN s ELSE Str("Slab")]
                  ELSE cells]]

\* the foundation pairs of the first row of a table of n rows: every pair
\* for one row, ('Pier and beam', '') for more
FirstPairs(n) ==
    IF n = 1 THEN FoundationPierSamples \X FoundationSlabSamples
    ELSE {<<Str("Pier and beam"), Str("")>>}

\* the end-to-end scenario row of the specification
ScenarioTable ==
    [columns |-> <<"foundation_pier_beam", "foundation_slab", "primary_residence",
                   "pv_system_size">>,
     data |-> [c \in {"foundation_pier_beam", "foundation_slab", "primary_residence",
                      "pv_system_size"} |->
                  IF c = "foundation_pier_beam" THEN <<Str("Pier and beam")>>
                  ELSE IF c = "foundation_slab" THEN <<Str("")>>
                  ELSE IF c = "primary_residence" THEN <<Str("Yes")>>
                  ELSE <<Str("8060 Watts")>>]]

SurveyTableName(year) ==
    IF year = 2013 THEN "survey_2013_all_participants" ELSE "survey_2014_all_participants"

NoCall == [fn |-> "none"]
NoRet == [status |-> "none"]

\* the script of GetSurveyData2014.py is not running
ScriptIdle ==
    /\ impute = FALSE
    /\ surveys = <<>>
    /\ surveysOHE = <<>>
    /\ surveydata = <<>>

InitSurvey ==
    /\ pc = "idle"
    /\ \/ \E year \in {2013, 2014} : \E cs \in Samples(year) : \E n \in 1..MaxRows :
             \E cells \in [1..n -> cs[2]] : \E ps \in FirstPairs(n) :
                con = (SurveyTableName(year) :> RawTable(ps[1], ps[2], cs[1], cells))
       \/ con = (SurveyTableName(2013) :> ScenarioTable)
    /\ nqueries = 0
    /\ call = NoCall
    /\ ret = NoRet
    /\ ScriptIdle

\* pd.read_sql_table(name, con, schema): one statement, the table's contents
read_sql_table(name) == con[name]

read_survey_all_participants_table(year) ==
    /\ pc = "idle"
    /\ SurveyTableName(year) \in DOMAIN con
    /\ call' = [fn |-> "read_survey_all_participants_table", year |-> year]
    /\ nqueries' = nqueries + 1
    /\ ret' = Normalize(year, read_sql_table(SurveyTableName(year)))
    /\ pc' = "done"
    /\ UNCHANGED <<con, impute, surveys, surveysOHE, surveydata>>

read_survey_2013_all_participants_table == read_survey_all_participants_table(2013)

read_survey_2014_all_participants_table == read_survey_all_participants_table(2014)

-----------------------------------------------------------------------------
(* api.py: the other revision of the 2013 normalizer, lines 277-507, with  *)
(* its own _merge_foundation_columns, lines 708-715.  Branches are named   *)
(* by the api.py line of their condition.                                  *)

\* a merge that takes only '' for an unset cell, not None
api_merge_foundation_columns_empty_only(row) ==
    IF row.foundation_pier_beam = Str("")
    THEN (IF row.foundation_slab = Str("Slab") THEN Str("Slab") ELSE None)
    ELSE IF row.foundation_pier_beam = Str("Pier and beam") /\ row.foundation_slab = Str("")
    THEN Str("Pier and beam")
    ELSE Str("Both")

api_merge_foundation_columns(row) ==
    IF row.foundation_pier_beam = Str("") \/ row.foundation_pier_beam = None
    THEN (IF row.foundation_slab = Str("Slab") THEN Str("Slab") ELSE None)
    ELSE IF row.foundation_pier_beam = Str("Pier and beam")
            /\ (row.foundation_slab = Str("") \/ row.foundation_slab = None)
    THEN Str("Pier and beam")
    ELSE Str("Both")

\* api.py lines 285-287: df["foundation"] = df.apply(...).astype(dtype), then
\* both source columns are dropped
api_MergeFoundation(df) ==
    LET merged == [i \in 1..NRows(df) |->
                      api_merge_foundation_columns(FoundationRow(df, i))]
        foundation == AsCategory(merged, StrCats({"Pier and beam", "Slab", "Both"}))
    IN DropColumn(DropColumn(SetColumn(df, "foundation", foundation),
                             "foundation_pier_beam"),
                  "foundation_slab")

\* the branch of the if/elif chain of api.py that a column name selects
api_Branch2013(column) ==
    IF column = "primary_residence" THEN 290
    ELSE IF column = "number_floors" THEN 292
    ELSE IF column = "year_moved_into_house" THEN 297
    ELSE IF column = "month_moved_into_house" THEN 302
    ELSE IF column = "year_house_constructed" THEN 308
    ELSE IF column = "house_num_rooms" THEN 314
    ELSE IF column = "house_ceiling_height" THEN 319
    ELSE IF column = "house_square_feet" THEN 321
    ELSE IF startswith(column, "spend_time_at_home_") THEN 323
    ELSE IF startswith(column, "ethnicity_") THEN 325
    ELSE IF startswith(column, "sex_") THEN 327
    ELSE IF startswith(column, "residents_") THEN 333
    ELSE IF column = "education_level" THEN 339
    ELSE IF column = "total_annual_income" THEN 346
    ELSE IF column = "smartphone_own" THEN 358
    ELSE IF column = "tablet_own" THEN 360
    ELSE IF column = "pv_system_own" THEN 362
    ELSE IF column = "pv_system_size" THEN 364
    ELSE IF column = "electricity_used_monthly" THEN 376
    ELSE IF column = "gas_used_monthly" THEN 378
    ELSE IF column = "retrofits" THEN 380
    ELSE IF column = "retrofits_detail" THEN 382
    ELSE IF column = "retrofits_reason" THEN 384
    ELSE IF startswith(column, "appliance_") THEN 386
    ELSE IF column = "irrigation_system" THEN 393
    ELSE IF column = "cooking_weekdays_times" THEN 395
    ELSE IF column = "cooking_weekends_times" THEN 399
    ELSE IF startswith(column, "cooking_") THEN 403
    ELSE IF startswith(column, "blinds_") THEN 405
    ELSE IF column = "thermostat_settings" THEN 409
    ELSE IF column = "tv_hours" THEN 416
    ELSE IF column = "care_energy_cost" THEN 424
    ELSE IF column = "reduce_energy_cost" THEN 426
    ELSE IF column = "reduce_energy_yes" THEN 428
    ELSE IF column = "modify_routines" THEN 430
    ELSE IF endswith(column, "_brand") \/ endswith(column, "_models") THEN 432
    ELSE IF startswith(column, "hvac_") THEN 434
    ELSE IF startswith(column, "compressor1_") THEN 436
    ELSE IF startswith(column, "compressor2_") THEN 438
    ELSE IF startswith(column, "compressor3_") THEN 440
    ELSE IF startswith(column, "air_handler1_") THEN 442
    ELSE IF startswith(column, "air_handler2_") THEN 444
    ELSE IF startswith(column, "heating_") THEN 446
    ELSE IF startswith(column, "temp_") THEN 448
    ELSE IF column = "pets" THEN 450
    ELSE IF column = "programmable_thermostat_currently_programmed" THEN 452
    ELSE IF column = "programmable_thermostat_difficultly" THEN 454
    ELSE IF column = "ac_comfortability" THEN 459
    ELSE IF column = "house_drafty" THEN 464
    ELSE IF startswith(column, "ac_cooling_") THEN 469
    ELSE IF column = "change_ac_filters" THEN 471
    ELSE IF column = "ac_service_package" THEN 478
    ELSE IF startswith(column, "ac_service_package_cost") THEN 480
    ELSE IF column = "ac_service_date" THEN 482
    ELSE IF column = "water_heater_tankless" THEN 488
    ELSE IF startswith(column, "light_bulbs_") THEN 490
    ELSE IF startswith(column, "electronic_devices_") THEN 492
    ELSE IF endswith(column, "_number") THEN 498
    ELSE IF column = "recessed_lights_location" THEN 500
    ELSE IF column = "track_lights_location" THEN 502
    ELSE 504

\* the body of the branch that api_Branch2013 selects, applied to the column s
api_Rule2013(column, s) ==
    LET b == api_Branch2013(column)
    IN CASE b \in {290, 358, 360, 362, 380, 393, 424, 426, 430, 450, 478, 488} ->
                Set(SeriesReplace(s, YesNo))
         [] b = 292 ->
                Set(AsCategory(SeriesReplace(s, {<<Str("One"), Num(1)>>, <<Str("Two"), Num(2)>>,
                                                 <<Str("Three"), Num(3)>>, <<Str("Four"), Num(4)>>}),
                               NumCats(1, 4)))
         [] b = 297 ->
                LET r == ApplyInt(s)
                IN SetOrRaise(IF r.ok THEN Ok(AsCategory(r.values, NumCats(1958, 2017))) ELSE r)
         [] b = 302 ->
                Set(AsCategory(s, StrCats({"January", "February", "March", "April", "May",
                                           "June", "July", "August", "September", "October",
                                           "November", "December"})))
         [] b = 308 ->
                LET r == ApplyInt(SeriesReplace(s, {<<Str("1930 or earlier"), Str("1930")>>}))
                IN SetOrRaise(IF r.ok THEN Ok(AsCategory(r.values, NumCats(1930, 2017))) ELSE r)
         [] b = 314 ->
                LET r == ApplyInt(s)
                IN SetOrRaise(IF r.ok THEN Ok(AsCategory(r.values, NumCats(1, 16))) ELSE r)
         [] b \in {319, 382, 428, 432, 436, 438, 440, 442, 444, 480, 498, 500, 502} -> Drop
         [] b = 321 -> SetOrRaise(AstypeFloat64(s))
         [] b \in {323, 325, 403, 434, 446, 469, 490} -> Set(notnull(s))
         [] b \in {327, 333, 492} ->
                Set(AsCategory(SeriesReplace(s, Counts0to5), NumCats(0, 5)))
         [] b = 339 -> Set(AsCategory(s, EducationCategories))
         [] b = 346 ->
                Set(AsCategory(SeriesStrReplace(SeriesStrReplace(s, "-", ",", TRUE),
                                                " , ", " - ", TRUE),
                               IncomeCategories))
         [] b = 364 -> Set(PvSystemSize2013(s))
         [] b \in {376, 378, 504} -> Pass
         [] b = 384 -> Set(SeriesReplace(s, YesNo \cup {<<Str("N/A"), None>>}))
         [] b = 386 ->
                Set(AsCategory(SeriesReplace(s, {<<Str("N/A"), None>>}),
                               StrCats({"rarely", "once or twice a month",
                                        "once or twice a week", "several times a week",
                                        "daily basis"})))
         [] b \in {395, 399} ->
                Set(AsCategory(s, StrCats({"None", "Less than 1 hour", "An hour or more"})))
         [] b = 405 ->
                Set(AsCategory(s, StrCats({"Rarely or never", "Some days", "Most days"})))
         [] b = 409 ->
                Set(AsCategory(s, StrCats({"We are generally in agreement",
                                           "Our preferences vary 1-2 degrees Fahrenheit",
                                           "Our preferences vary 3-5 degrees Fahrenheit",
                                           "Our preferences vary more than 5 degrees Fahrenheit"})))
         [] b = 416 ->
                Set(AsCategory(SeriesReplace(s, {<<None, Num(0)>>, <<Str("1"), Num(1)>>,
                                                 <<Str("2"), Num(2)>>, <<Str("3"), Num(3)>>,
                                                 <<Str("4"), Num(4)>>, <<Str("5"), Num(5)>>,
                                                 <<Str("6"), Num(6)>>, <<Str("7"), Num(7)>>,
                                                 <<Str("8"), Num(8)>>, <<Str("9"), Num(9)>>,
                                                 <<Str("10"), Num(10)>>,
                                                 <<Str("10 or more"), Num(11)>>}),
                               NumCats(0, 11)))
         [] b = 448 -> Set(to_numeric(s))
         [] b = 452 -> Set(SeriesReplace(s, YesNo \cup {<<Str("I dont know"), None>>}))
         [] b = 454 ->
                [op |-> "move", to |-> "programmable_thermostat_difficulty",
                 values |-> AsCategory(s, StrCats({"Havent tried", "Easy",
                                                   "Moderately difficult", "Very difficult"}))]
         [] b = 459 ->
                Set(AsCategory(SeriesReplace(s, {<<Str("1"), Num(1)>>, <<Str("2"), Num(2)>>,
                                                 <<Str("3"), Num(3)>>, <<Str("4"), Num(4)>>,
                                                 <<Str("5"), Num(5)>>}),
                               NumCats(1, 5)))
         [] b = 464 ->
                Set(AsCategory(SeriesReplace(s, {<<Str("I dont know/Havent noticed"), None>>}),
                               StrCats({"No", "Somewhat", "Yes"})))
         [] b = 471 ->
                Set(AsCategory(SeriesReplace(s, {<<Str("There is an HVAC filter!?"), None>>}),
                               StrCats({"Every year or greater", "Every 6-12 months",
                                        "Every 4-6 months", "Every 2-3 months",
                                        "At least once every month"})))
         [] b = 482 ->
                Set(AsCategory(SeriesReplace(s, {<<Str("I dont know"), None>>}),
                               StrCats({"Less than a year ago", "1-2 years ago",
                                        "2-3 years ago", "3-5 years ago", "Never"})))

RECURSIVE api_ColumnLoop(_, _, _)
\* api.py line 289, "for column in df", over the columns todo
api_ColumnLoop(df, todo, visited) ==
    IF Len(todo) = 0 THEN [status |-> "ok", df |-> df, visited |-> visited]
    ELSE LET column == Head(todo)
             o == api_Rule2013(column, df.data[column])
             seen == Append(visited, <<column, api_Branch2013(column)>>)
         IN IF o.op = "raise"
            THEN [status |-> "raise", exc |-> o.exc, visited |-> seen]
            ELSE api_ColumnLoop(
                     CASE o.op = "set" -> SetColumn(df, column, o.values)
                       [] o.op = "drop" -> DropColumn(df, column)
                       [] o.op = "move" -> DropColumn(SetColumn(df, o.to, o.values), column)
                       [] o.op = "pass" -> df,
                     Tail(todo), seen)

\* api.read_survey_2013_all_participants_table applied to the table read
api_Normalize(raw) ==
    LET df == api_MergeFoundation(raw) IN api_ColumnLoop(df, df.columns, <<>>)

api_read_survey_2013_all_participants_table ==
    /\ pc = "idle"
    /\ SurveyTableName(2013) \in DOMAIN con
    /\ call' = [fn |-> "api.read_survey_2013_all_participants_table", year |-> 2013]
    /\ nqueries' = nqueries + 1
    /\ ret' = api_Normalize(read_sql_table(SurveyTableName(2013)))
    /\ pc' = "done"
    /\ UNCHANGED <<con, impute, surveys, surveysOHE, surveydata>>

-----------------------------------------------------------------------------

NextSurvey ==
    \/ read_survey_2013_all_participants_table
    \/ read_survey_2014_all_participants_table
    \/ api_read_survey_2013_all_participants_table

SpecSurvey == InitSurvey /\ [][NextSurvey]_vars

-----------------------------------------------------------------------------
(* The time-windowed queries.  A time series table of the database is      *)
(* [time_col |-> name of its time column, rows |-> set of rows], a row     *)
(* a function from column names to integers; times are instants.           *)

\* latest instant of a stored reading
MaxTime == 2

\* largest chunksize passed
MaxChunk == 2

Times == 0..MaxTime

EgaugeTables == {"electricity_egauge_minutes", "electricity_egauge_15min",
                 "electricity_egauge_hours"}
ErtTables == {"gas_ert", "water_ert", "water_capstone"}

TimeColumn(table) ==
    CASE table = "electricity_egauge_minutes" -> "localminute"
      [] table = "electricity_egauge_15min" -> "local_15min"
      [] table = "electricity_egauge_hours" -> "localhour"
      [] table = "gas_ert" -> "readtime"
      [] table = "water_ert" -> "readtime"
      [] table = "water_capstone" -> "localminute"

ValueColumn(table) ==
    CASE table \in EgaugeTables -> "use"
      [] table \in {"gas_ert", "water_ert"} -> "meter_value"
      [] table = "water_capstone" -> "consumption"

Reading(table, dataid, t) ==
    [c \in {"dataid", TimeColumn(table), ValueColumn(table)} |->
        IF c = "dataid" THEN dataid
        ELSE IF c = TimeColumn(table) THEN t
        ELSE 10 * dataid + t]

\* the databases of the model: one table holds readings of household 1 at
\* any set of instants and possibly one reading of household 2; the other
\* tables are empty
Databases ==
    {[table \in EgaugeTables \cup ErtTables |->
        [time_col |-> TimeColumn(table),
         rows |-> IF table = full
                  THEN {Reading(table, 1, t) : t \in ts} \cup {Reading(table, 2, t) : t \in other}
                  ELSE {}]] :
     full \in EgaugeTables \cup {"gas_ert"}, ts \in SUBSET Times, other \in {{}, {1}}}

RECURSIVE SortedBy(_, _)
\* the rows of S in ascending order of column col (ORDER BY col ASC)
SortedBy(S, col) ==
    IF S = {} THEN <<>>
    ELSE LET first == CHOOSE r \in S : \A q \in S : r[col] <= q[col]
         IN <<first>> \o SortedBy(S \ {first}, col)

\* what the database answers to
\*   SELECT select FROM schema.table WHERE dataid=.. AND time_col lower 'start'
\*   AND time_col upper 'end' ORDER BY time_col ASC
\* select is "*" or a sequence of column names
Compare(op, a, b) ==
    CASE op = ">=" -> a >= b
      [] op = ">" -> a > b
      [] op = "<" -> a < b
      [] op = "<=" -> a <= b

Columns(table) == {"dataid", con[table].time_col, ValueColumn(table)}

Selected(query) ==
    IF query.select = "*" THEN Columns(query.table)
    ELSE {query.select[i] : i \in 1..Len(query.select)}

ExecuteSelect(query) ==
    IF query.time_col \notin Columns(query.table) \/ ~(Selected(query) \subseteq Columns(query.table))
    THEN Raise("ProgrammingError")
    ELSE LET hits == {r \in con[query.table].rows :
                        /\ r["dataid"] = query.dataid
                        /\ Compare(query.lower, r[query.time_col], query.start_time)
                        /\ Compare(query.upper, r[query.time_col], query.end_time)}
             sorted == SortedBy(hits, query.time_col)
         IN Ok([i \in 1..Len(sorted) |-> [c \in Selected(query) |-> sorted[i][c]]])

\* the template with an inclusive upper end of the time range
EgaugeTemplate_end_inclusive(kwargs) ==
    [select |-> IF kwargs.columns = "all" THEN "*"
                ELSE <<kwargs.local_minute>> \o kwargs.columns,
     table |-> kwargs.table,
     dataid |-> kwargs.dataid,
     time_col |-> kwargs.local_minute,
     lower |-> ">=",
     start_time |-> kwargs.start_time,
     upper |-> "<=",
     end_time |-> kwargs.end_time]

\* template.format(**kwargs) of _read_electricity_egauge_query, lines 131-143
EgaugeTemplate(kwargs) ==
    [select |-> IF kwargs.columns = "all" THEN "*"
                ELSE <<kwargs.local_minute>> \o kwargs.columns,
     table |-> kwargs.table,
     dataid |-> kwargs.dataid,
     time_col |-> kwargs.local_minute,
     lower |-> ">=",
     start_time |-> kwargs.start_time,
     upper |-> "<",
     end_time |-> kwargs.end_time]

\* df[local_minute] = df[local_minute].dt.tz_convert(tz);
\* df.set_index(local_minute, inplace=True): the instant is kept, the zone
\* becomes tz, and the time column becomes the index
IndexByTime(rows, local_minute, tz) ==
    [i \in 1..Len(rows) |->
        [index |-> [instant |-> rows[i][local_minute], tz |-> tz],
         data |-> [c \in (DOMAIN rows[i]) \ {local_minute} |-> rows[i][c]]]]

\* _read_electricity_egauge_query, lines 131-149: the executed flag tells
\* whether the statement reached the database.  With a chunksize
\* pd.read_sql_query returns a generator, and subscripting it on line 147
\* raises TypeError
_read_electricity_egauge_query(kwargs) ==
    LET answer == ExecuteSelect(EgaugeTemplate(kwargs))
    IN IF ~answer.ok THEN [status |-> "raise", exc |-> answer.exc, executed |-> 1]
       ELSE IF kwargs.chunksize # <<>>
       THEN [status |-> "raise", exc |-> "TypeError", executed |-> 1]
       ELSE [status |-> "ok", index_name |-> kwargs.local_minute, executed |-> 1,
             rows |-> IndexByTime(answer.values, kwargs.local_minute, kwargs.tz)]

\* the frequency check with the minutes table as the default
FreqKwargs_default_minutes(freq) ==
    IF freq = "15T" THEN <<"electricity_egauge_15min", "local_15min">>
    ELSE IF freq = "H" THEN <<"electricity_egauge_hours", "localhour">>
    ELSE <<"electricity_egauge_minutes", "localminute">>

\* lines 63-81 of read_electricity_egauge_query: the table and time column
\* of a frequency, <<>> where the function raises ValueError
FreqKwargs(freq) ==
    IF freq = "T" THEN <<"electricity_egauge_minutes", "localminute">>
    ELSE IF freq = "15T" THEN <<"electricity_egauge_15min", "local_15min">>
    ELSE IF freq = "H" THEN <<"electricity_egauge_hours", "localhour">>
    ELSE <<>>

EgaugeResult(args) ==
    LET fk == FreqKwargs(args.freq)
    IN IF fk = <<>> THEN [status |-> "raise", exc |-> "ValueError", executed |-> 0]
       ELSE _read_electricity_egauge_query(
                [columns |-> args.columns, table |-> fk[1], local_minute |-> fk[2],
                 dataid |-> args.dataid, start_time |-> args.start_time,
                 end_time |-> args.end_time, tz |-> args.tz, chunksize |-> args.chunksize])

Zones == {"US/Central", "UTC"}
Chunksizes == {<<>>} \cup {<<k>> : k \in 1..MaxChunk}

InitQueries ==
    /\ pc = "idle"
    /\ con \in Databases
    /\ nqueries = 0
    /\ call = NoCall
    /\ ret = NoRet
    /\ ScriptIdle

read_electricity_egauge_query ==
    /\ pc = "idle"
    /\ EgaugeTables \subseteq DOMAIN con
    /\ \E dataid \in {1, 2}, start_time \in 0..(MaxTime + 1), end_time \in 0..(MaxTime + 1),
          columns \in {"all", <<"use">>}, freq \in {"T", "15T", "H", "D", "t"}, tz \in Zones,
          chunksize \in Chunksizes :
          LET args == [fn |-> "read_electricity_egauge_query", dataid |-> dataid,
                       start_time |-> start_time, end_time |-> end_time,
                       columns |-> columns, freq |-> freq, tz |-> tz,
                       chunksize |-> chunksize]
              r == EgaugeResult(args)
          IN /\ call' = args
             /\ ret' = r
             /\ nqueries' = nqueries + r.executed
    /\ pc' = "done"
    /\ UNCHANGED <<con, impute, surveys, surveysOHE, surveydata>>

\* gas_water_api.py lines 51-54, 125-128 and 172-175: building kwargs reads
\* the name ert_end_time, which nothing defines, so the call raises
\* NameError before the template is formatted or a statement executed
ErtResult(table, args) == [status |-> "raise", exc |-> "NameError", executed |-> 0]

ErtCall(fn, table) ==
    /\ pc = "idle"
    /\ table \in DOMAIN con
    /\ \E dataid \in {1, 2}, start_time \in 0..(MaxTime + 1), end_time \in 0..(MaxTime + 1),
          tz \in Zones :
          LET args == [fn |-> fn, dataid |-> dataid, start_time |-> start_time,
                       end_time |-> end_time, tz |-> tz]
              r == ErtResult(table, args)
          IN /\ call' = args
             /\ ret' = r
             /\ nqueries' = nqueries + r.executed
    /\ pc' = "done"
    /\ UNCHANGED <<con, impute, surveys, surveysOHE, surveydata>>

read_gas_ert_query == ErtCall("read_gas_ert_query", "gas_ert")

read_water_ert_query == ErtCall("read_water_ert_query", "water_ert")

read_water_capstone_query == ErtCall("read_water_capstone_query", "water_capstone")

NextQueries ==
    \/ read_electricity_egauge_query
    \/ read_gas_ert_query
    \/ read_water_ert_query
    \/ read_water_capstone_query

SpecQueries == InitQueries /\ [][NextQueries]_vars

-----------------------------------------------------------------------------
(* GetSurveyData2014.py.  A row of the queried table is                    *)
(* [rid |-> its position in the query result, dataid |-> its index value,  *)
(*  cells |-> function column -> cell]; cells are numbers or NaN.          *)

\* largest number of rows the survey query returns
MaxSurveyRows == 2

temps ==
    <<"temp_summer_weekday_workday_p", "temp_summer_weekday_morning_p",
      "temp_summer_weekday_evening_p", "temp_summer_sleeping_hours_hours_p",
      "temp_summer_weekend_hours_p", "temp_winter_weekday_workday_p",
      "temp_winter_weekday_morning_p", "temp_winter_weekday_evening_p",
      "temp_winter_sleeping_hours_hours_p", "temp_winter_weekend_hours_p">>

categors ==
    <<"foundation_type_p", "education_level_p", "income_level_p", "pv_satisfied_p",
      "hvac_p">>

Range(seq) == {seq[i] : i \in 1..Len(seq)}

PrepColumns == Range(temps) \cup Range(categors) \cup {"programmed_p"}

\* a row without missing values
BaseCells ==
    [c \in PrepColumns |->
        IF c \in Range(temps) THEN Num(72)
        ELSE IF c = "foundation_type_p" THEN Num(1)
        ELSE IF c = "education_level_p" THEN Num(3)
        ELSE IF c = "income_level_p" THEN Num(2)
        ELSE IF c = "pv_satisfied_p" THEN Num(4)
        ELSE Num(1)]

\* the cells of a queried row: the base row, or the base row with one cell
\* missing or holding another value
RowCells ==
    {BaseCells}
    \cup {[BaseCells EXCEPT ![c] = NaN] :
            c \in {"temp_summer_weekday_workday_p", "temp_winter_weekend_hours_p",
                   "foundation_type_p", "education_level_p", "income_level_p",
                   "pv_satisfied_p", "hvac_p", "programmed_p"}}
    \cup {[BaseCells EXCEPT ![cv[1]] = cv[2]] :
            cv \in {<<"temp_summer_weekday_workday_p", Num(75)>>,
                    <<"foundation_type_p", Num(2)>>, <<"education_level_p", Num(1)>>,
                    <<"pv_satisfied_p", Num(5)>>}}

\* the table of n rows with the index values ids and the cells cs; rid is
\* the position of the row in the query result
QueriedTable(n, ids, cs) ==
    [i \in 1..n |-> [rid |-> i, dataid |-> ids[i], cells |-> cs[i]]]

Column(rows, c) == [i \in 1..Len(rows) |-> rows[i].cells[c]]

RECURSIVE Insert(_, _)
\* seq is ascending; v is put at its place
Insert(seq, v) ==
    IF Len(seq) = 0 THEN <<v>>
    ELSE IF v <= Head(seq) THEN <<v>> \o seq
    ELSE <<Head(seq)>> \o Insert(Tail(seq), v)

RECURSIVE Sort(_)
Sort(seq) == IF Len(seq) = 0 THEN <<>> ELSE Insert(Sort(Tail(seq)), Head(seq))

\* the integer values of the cells of s that are not missing
Present(s) ==
    LET kept == SelectSeq(s, LAMBDA c : ~IsNull(c))
    IN [i \in 1..Len(kept) |-> kept[i][2]]

\* Series.median(): missing values are skipped; NaN when none is left
median(s) ==
    LET v == Sort(Present(s))
        n == Len(v)
    IN IF n = 0 THEN NaN
       ELSE IF n % 2 = 1 THEN Num(v[(n + 1) \div 2])
       ELSE Norm((v[n \div 2] + v[n \div 2 + 1]) * 5, 0 - 1)

RECURSIVE Ascending(_)
\* the members of a set of integers in ascending order
Ascending(S) ==
    IF S = {} THEN <<>>
    ELSE LET least == CHOOSE x \in S : \A y \in S : x <= y
         IN <<least>> \o Ascending(S \ {least})

\* Series.mode(): the most frequent values that are not missing, ascending
mode(s) ==
    LET v == Present(s)
        Count(x) == Cardinality({i \in 1..Len(v) : v[i] = x})
        best == {x \in Range(v) : \A y \in Range(v) : Count(y) <= Count(x)}
    IN Ascending(best)

\* rows with column c's missing cells replaced by value:
\* surveys[c].fillna(value, inplace=True)
fillna(rows, c, value) ==
    [i \in 1..Len(rows) |->
        [rows[i] EXCEPT !.cells[c] = IF IsNull(@) THEN value ELSE @]]

RECURSIVE FillTemps(_, _)
\* lines 58-59: for t in temps: surveys[t].fillna(surveys[t].median())
FillTemps(rows, todo) ==
    IF Len(todo) = 0 THEN rows
    ELSE FillTemps(fillna(rows, Head(todo), median(Column(rows, Head(todo)))), Tail(todo))

\* the columns filled with their mode when impute is set, in source order
ModeColumns == <<"foundation_type_p", "income_level_p", "programmed_p">>

\* 3 = Neutral, line 67
NeutralSatisfaction == 3

RECURSIVE FillModes(_, _)
\* lines 64-66: surveys.<c>.fillna(surveys.<c>.mode().iloc[0]); iloc[0] of
\* an empty mode raises IndexError
FillModes(rows, todo) ==
    IF Len(todo) = 0 THEN Ok(rows)
    ELSE LET m == mode(Column(rows, Head(todo)))
         IN IF Len(m) = 0 THEN Raise("IndexError")
            ELSE FillModes(fillna(rows, Head(todo), Num(m[1])), Tail(todo))

\* lines 63-67
ImputeRows(rows) ==
    LET filled == FillModes(rows, ModeColumns)
    IN IF filled.ok
       THEN Ok(fillna(filled.values, "pv_satisfied_p", Num(NeutralSatisfaction)))
       ELSE filled

\* dropna(how="all"): only a row without any value goes
dropna_all_missing(rows) ==
    SelectSeq(rows, LAMBDA r : \E c \in DOMAIN r.cells : ~IsNull(r.cells[c]))

\* line 69: surveys.dropna(): a row with a missing cell in any column goes
dropna(rows) == SelectSeq(rows, LAMBDA r : \A c \in DOMAIN r.cells : ~IsNull(r.cells[c]))

RECURSIVE unique(_)
\* Series.unique(): the distinct values in order of first appearance, all
\* missing values counting as one
unique(s) ==
    IF Len(s) = 0 THEN <<>>
    ELSE LET before == unique(SubSeq(s, 1, Len(s) - 1))
             last == IF IsNull(s[Len(s)]) THEN NaN ELSE s[Len(s)]
         IN IF last \in Range(before) THEN before ELSE Append(before, last)

\* lines 73-77: pd.Categorical(column, column.unique()) for each of the
\* five columns; categories that contain a missing value raise ValueError
Categories(rows) ==
    IF \E c \in Range(categors) : NaN \in Range(unique(Column(rows, c)))
    THEN Raise("ValueError")
    ELSE Ok([c \in Range(categors) |-> unique(Column(rows, c))])

\* indicators that are 1 in every row
get_dummies_all_ones(rows, categories) ==
    [i \in 1..Len(rows) |->
        [rid |-> rows[i].rid, dataid |-> rows[i].dataid,
         cells |-> [k \in UNION {{<<c, v>> : v \in Range(categories[c])} :
                                   c \in DOMAIN categories} |-> 1]]]

\* line 79: pd.get_dummies(surveys[categors]): one indicator per column and
\* category, named here <<column, category>>, 1 where the row holds the
\* category; the index (dataid) is kept
get_dummies(rows, categories) ==
    [i \in 1..Len(rows) |->
        [rid |-> rows[i].rid, dataid |-> rows[i].dataid,
         cells |-> [k \in UNION {{<<c, v>> : v \in Range(categories[c])} :
                                   c \in DOMAIN categories} |->
                       IF rows[i].cells[k[1]] = k[2] THEN 1 ELSE 0]]]

RECURSIVE Flatten(_)
Flatten(seqs) == IF Len(seqs) = 0 THEN <<>> ELSE Head(seqs) \o Flatten(Tail(seqs))

\* line 83: surveys.join(surveysOHE, how='inner'): every pair of a left and
\* a right row with the same index value
join(left, right) ==
    Flatten([i \in 1..Len(left) |->
        LET matches == SelectSeq(right, LAMBDA r : r.dataid = left[i].dataid)
        IN [j \in 1..Len(matches) |->
               [dataid |-> left[i].dataid, left |-> left[i].rid, right |-> matches[j].rid,
                cells |-> left[i].cells, dummies |-> matches[j].cells]]])

NoTable == <<>>

InitScript ==
    /\ pc = "start"
    /\ \E n \in 0..MaxSurveyRows : \E ids \in [1..n -> {1, 2}] : \E cs \in [1..n -> RowCells] :
          con = [survey_prep |-> QueriedTable(n, ids, cs)]
    /\ nqueries = 0
    /\ call = NoCall
    /\ ret = NoRet
    /\ impute \in BOOLEAN
    /\ surveys = [rows |-> NoTable, categories |-> <<>>]
    /\ surveysOHE = NoTable
    /\ surveydata = NoTable

\* line 48: surveys = pd.read_sql_query(survSQL, conn, index_col=["dataid"])
QuerySurveys ==
    /\ pc = "start"
    /\ "survey_prep" \in DOMAIN con
    /\ surveys' = [surveys EXCEPT !.rows = con.survey_prep]
    /\ nqueries' = nqueries + 1
    /\ pc' = "queried"
    /\ UNCHANGED <<con, call, ret, impute, surveysOHE, surveydata>>

\* lines 58-59
ImputeTemps ==
    /\ pc = "queried"
    /\ surveys' = [surveys EXCEPT !.rows = FillTemps(@, temps)]
    /\ pc' = "temps_filled"
    /\ UNCHANGED <<con, nqueries, call, ret, impute, surveysOHE, surveydata>>

\* lines 63-69
ImputeOrDrop ==
    /\ pc = "temps_filled"
    /\ LET r == IF impute THEN ImputeRows(surveys.rows) ELSE Ok(dropna(surveys.rows))
       IN IF r.ok
          THEN /\ surveys' = [surveys EXCEPT !.rows = r.values]
               /\ pc' = "imputed"
               /\ ret' = ret
          ELSE /\ surveys' = surveys
               /\ pc' = "crashed"
               /\ ret' = [status |-> "raise", exc |-> r.exc]
    /\ UNCHANGED <<con, nqueries, call, impute, surveysOHE, surveydata>>

\* lines 72-77
MakeCategorical ==
    /\ pc = "imputed"
    /\ LET r == Categories(surveys.rows)
       IN IF r.ok
          THEN /\ surveys' = [surveys EXCEPT !.categories = r.values]
               /\ pc' = "categorical"
               /\ ret' = ret
          ELSE /\ surveys' = surveys
               /\ pc' = "crashed"
               /\ ret' = [status |-> "raise", exc |-> r.exc]
    /\ UNCHANGED <<con, nqueries, call, impute, surveysOHE, surveydata>>

\* line 79
OneHotEncode ==
    /\ pc = "categorical"
    /\ surveysOHE' = get_dummies(surveys.rows, surveys.categories)
    /\ pc' = "encoded"
    /\ UNCHANGED <<con, nqueries, call, ret, impute, surveys, surveydata>>

\* lines 83-85: the join and the pickle dump
JoinAndSave ==
    /\ pc = "encoded"
    /\ surveydata' = join(surveys.rows, surveysOHE)
    /\ pc' = "saved"
    /\ UNCHANGED <<con, nqueries, call, ret, impute, surveys, surveysOHE>>

NextScript ==
    \/ QuerySurveys
    \/ ImputeTemps
    \/ ImputeOrDrop
    \/ MakeCategorical
    \/ OneHotEncode
    \/ JoinAndSave

SpecScript == InitScript /\ [][NextScript]_vars

-----------------------------------------------------------------------------
(* utils.py: read_sql_query and read_metadata_table.                       *)
(*                                                                         *)
(* A datetime cell is <<"dt", wall, tz>>, the wall-clock hour wall read in *)
(* the zone tz, or <<"NaT", tz>>; tz = "naive" for a column without        *)
(* timezone information.  The last component of every cell of a datetime   *)
(* column is the tz of the column's dtype.                                 *)

\* largest number of rows of the metadata table
MaxMetaRows == 3

\* str.upper() of a one-character string
UpperChar(c) ==
    IF \E u \in DOMAIN LowerOf : LowerOf[u] = c
    THEN CHOOSE u \in DOMAIN LowerOf : LowerOf[u] = c
    ELSE c

RECURSIVE Upper(_)
Upper(s) == IF Len(s) = 0 THEN "" ELSE UpperChar(CharAt(s, 1)) \o Upper(SubSeq(s, 2, Len(s)))

\* str.index(sub, 0): the lowest 0-based position at which sub occurs in s;
\* -1 stands for the ValueError of a text without sub
StrIndex(s, sub) ==
    LET hits == {i \in 0..(Len(s) - Len(sub)) : SubSeq(s, i + 1, i + Len(sub)) = sub}
    IN IF hits = {} THEN 0 - 1 ELSE CHOOSE i \in hits : \A j \in hits : i <= j

\* the text files a caller may name as sql_file
SqlFiles ==
    ("select.sql" :> "select dataid from metadata")
    @@ ("drop.sql" :> "DROP TABLE metadata")

\* SQL texts a caller may pass as sql_str
SqlTexts ==
    {"SELECT * FROM metadata", "select city from metadata",
     "DELETE FROM metadata; SELECT 1", "DELETE FROM metadata", ""}

\* pd.read_sql_query(SQL, con, ..., chunksize = chunksize): the statement is
\* executed; with a chunksize the value is a generator of tables
PandasReadSqlQuery(SQL, chunksize) ==
    [status |-> "ok", executed |-> 1, sql |-> SQL,
     value |-> IF chunksize = <<>> THEN "DataFrame" ELSE "generator"]

\* lines 51-69 of read_sql_query with the names SQLstr and SQLfile bound
ReadSqlQueryBody(SQLstr, SQLfile, chunksize) ==
    IF SQLstr = None /\ SQLfile = None
    THEN [status |-> "raise", exc |-> "TypeError", executed |-> 0]
    ELSE IF SQLstr = None /\ SQLfile[2] \notin DOMAIN SqlFiles
    THEN [status |-> "raise", exc |-> "FileNotFoundError", executed |-> 0]
    ELSE LET SQL == IF SQLstr # None THEN SQLstr[2] ELSE SqlFiles[SQLfile[2]]
         IN IF StrIndex(Upper(SQL), "SELECT") < 0
            THEN [status |-> "raise", exc |-> "ValueError", executed |-> 0]
            ELSE PandasReadSqlQuery(SQL, chunksize)

\* the names bound while the body of utils.read_sql_query runs: its
\* parameters and the globals of utils.py
ReadSqlQueryNames ==
    {"con", "sql_str", "sql_file", "index_col", "parse_dates", "params", "chunksize",
     "Generator", "List", "Union", "pd", "sqlalchemy",
     "read_sql_query", "create_engine", "read_metadata_table"}

\* utils.read_sql_query(con, sql_str, sql_file, chunksize = chunksize): line
\* 52 reads the name SQLstr, which is neither a parameter nor a global
ReadSqlQueryResult(sql_str, sql_file, chunksize) ==
    IF "SQLstr" \notin ReadSqlQueryNames
    THEN [status |-> "raise", exc |-> "NameError", executed |-> 0]
    ELSE ReadSqlQueryBody(sql_str, sql_file, chunksize)

read_sql_query ==
    /\ pc = "idle"
    /\ "metadata" \in DOMAIN con
    /\ \E sql_str \in Cells(SqlTexts),
          sql_file \in Cells({"select.sql", "drop.sql", "missing.sql"}),
          chunksize \in Chunksizes :
          LET r == ReadSqlQueryResult(sql_str, sql_file, chunksize)
          IN /\ call' = [fn |-> "read_sql_query", sql_str |-> sql_str,
                         sql_file |-> sql_file, chunksize |-> chunksize]
             /\ ret' = r
             /\ nqueries' = nqueries + r.executed
    /\ pc' = "done"
    /\ UNCHANGED <<con, impute, surveys, surveysOHE, surveydata>>

\* hours by which the wall clock of zone tz is ahead of UTC at the instant t
\* (hours since the first reading): US/Central changes from standard to
\* daylight time at instant 2
UtcOffset(tz, t) ==
    IF tz = "US/Central" THEN (IF t >= 2 THEN 0 - 5 ELSE 0 - 6) ELSE 0

IsDatetime(c) == c[1] \in {"dt", "NaT"}
TzOf(c) == c[Len(c)]
NaT(tz) == <<"NaT", tz>>
Datetime(wall, tz) == <<"dt", wall, tz>>

\* Series.dt.tz_localize("UTC") of a datetime column: TypeError when the
\* column is already timezone-aware
tz_localize(s, tz) ==
    IF \E i \in 1..Len(s) : ~IsDatetime(s[i])
    THEN [status |-> "raise", exc |-> "AttributeError"]
    ELSE IF \E i \in 1..Len(s) : TzOf(s[i]) # "naive"
    THEN [status |-> "raise", exc |-> "TypeError"]
    ELSE [status |-> "ok",
          values |-> [i \in 1..Len(s) |->
                        IF s[i][1] = "NaT" THEN NaT(tz) ELSE Datetime(s[i][2], tz)]]

\* the instant (UTC hour) of a timezone-aware cell
InstantOf(c) ==
    IF TzOf(c) = "UTC" THEN c[2]
    ELSE CHOOSE t \in (c[2] + 5)..(c[2] + 6) : t + UtcOffset(TzOf(c), t) = c[2]

\* a conversion that puts the new zone on the same wall-clock hour
tz_convert_relabel(s, tz) ==
    IF \E i \in 1..Len(s) : ~IsDatetime(s[i])
    THEN [status |-> "raise", exc |-> "AttributeError"]
    ELSE IF \E i \in 1..Len(s) : TzOf(s[i]) = "naive"
    THEN [status |-> "raise", exc |-> "TypeError"]
    ELSE [status |-> "ok",
          values |-> [i \in 1..Len(s) |->
                        IF s[i][1] = "NaT" THEN NaT(tz) ELSE Datetime(s[i][2], tz)]]

\* Series.dt.tz_convert(tz) of a datetime column: TypeError when the column
\* has no timezone
tz_convert(s, tz) ==
    IF \E i \in 1..Len(s) : ~IsDatetime(s[i])
    THEN [status |-> "raise", exc |-> "AttributeError"]
    ELSE IF \E i \in 1..Len(s) : TzOf(s[i]) = "naive"
    THEN [status |-> "raise", exc |-> "TypeError"]
    ELSE [status |-> "ok",
          values |-> [i \in 1..Len(s) |->
                        IF s[i][1] = "NaT" THEN NaT(tz)
                        ELSE LET t == InstantOf(s[i])
                             IN Datetime(t + UtcOffset(tz, t), tz)]]

datetime_columns ==
    <<"indoor_temp_min_time", "indoor_temp_max_time",
      "gas_ert_min_time", "gas_ert_max_time",
      "water_ert_min_time", "water_ert_max_time",
      "egauge_min_time", "egauge_max_time">>

\* a conversion of every column of "yes" and blanks, whichever blanks
YesColumn_any_blank(s) ==
    LET unique_values == {s[i] : i \in 1..Len(s)}
    IN IF Str("yes") \in unique_values
          /\ unique_values \subseteq {Str("yes"), None, Str(" ")}
       THEN [i \in 1..Len(s) |-> Bool(s[i] = Str("yes"))]
       ELSE s

\* lines 110-112: the column compared with "yes" when its distinct values
\* are {"yes", None} or {"yes", " "}, else the column as it is
YesColumn(s) ==
    LET unique_values == {s[i] : i \in 1..Len(s)}
    IN IF unique_values = {Str("yes"), None} \/ unique_values = {Str("yes"), Str(" ")}
       THEN [i \in 1..Len(s) |-> Bool(s[i] = Str("yes"))]
       ELSE s

RECURSIVE YesLoop(_, _)
\* lines 109-112, over the columns todo
YesLoop(df, todo) ==
    IF Len(todo) = 0 THEN df
    ELSE YesLoop(SetColumn(df, Head(todo), YesColumn(df.data[Head(todo)])), Tail(todo))

\* lines 120-123 for one column
LocalizeColumn(s, tz) ==
    LET localized == tz_localize(s, "UTC")
    IN IF localized.status = "ok" THEN tz_convert(localized.values, tz)
       ELSE IF localized.exc = "TypeError" THEN tz_convert(s, tz)
       ELSE localized

RECURSIVE LocalizeLoop(_, _, _)
\* lines 119-123, over the columns todo
LocalizeLoop(df, todo, tz) ==
    IF Len(todo) = 0 THEN [status |-> "ok", df |-> df]
    ELSE IF Head(todo) \notin DOMAIN df.data
    THEN [status |-> "raise", exc |-> "KeyError"]
    ELSE LET o == LocalizeColumn(df.data[Head(todo)], tz)
         IN IF o.status = "raise" THEN o
            ELSE LocalizeLoop(SetColumn(df, Head(todo), o.values), Tail(todo), tz)

\* read_metadata_table applied to the table read
MetadataResult(df, tz) == LocalizeLoop(YesLoop(df, df.columns), datetime_columns, tz)

\* the values a text column of the metadata table may hold
MetaTextSamples == Cells({"yes", " ", "no"})

\* the metadata table: a text column pv and the eight time columns; the
\* min_time columns hold the hours from first on, one per row, in the dtype
\* tzs[1], the max_time columns the hour after in the dtype tzs[2]; with
\* first = <<>> the time of the first row is null
MetadataTable(n, pv, first, tzs) ==
    LET hour(i) == IF first = <<>> THEN i - 1 ELSE first[1] + i - 1
        time(i, k) == IF first = <<>> /\ i = 1 THEN NaT(tzs[k])
                      ELSE Datetime(hour(i) + k - 1, tzs[k])
    IN [columns |-> <<"pv">> \o datetime_columns,
        data |-> [c \in {"pv"} \cup Range(datetime_columns) |->
                    IF c = "pv" THEN pv
                    ELSE [i \in 1..n |-> time(i, IF endswith(c, "_min_time") THEN 1 ELSE 2)]]]

InitUtils ==
    /\ pc = "idle"
    /\ \E n \in 1..MaxMetaRows :
          \E pv \in [1..n -> MetaTextSamples] :
             \E first \in {<<>>} \cup {<<t>> : t \in Times} :
                \E tzs \in [{1, 2} -> {"naive", "UTC"}] :
                   con = [metadata |-> MetadataTable(n, pv, first, tzs)]
    /\ nqueries = 0
    /\ call = NoCall
    /\ ret = NoRet
    /\ ScriptIdle

read_metadata_table ==
    /\ pc = "idle"
    /\ "metadata" \in DOMAIN con
    /\ \E tz \in Zones :
          /\ call' = [fn |-> "read_metadata_table", tz |-> tz]
          /\ ret' = MetadataResult(read_sql_table("metadata"), tz)
    /\ nqueries' = nqueries + 1
    /\ pc' = "done"
    /\ UNCHANGED <<con, impute, surveys, surveysOHE, surveydata>>

NextUtils ==
    \/ read_sql_query
    \/ read_metadata_table

SpecUtils == InitUtils /\ [][NextUtils]_vars

-----------------------------------------------------------------------------
(* Claims about the survey normalizers, checked under SpecSurvey.          *)

SurveyYear == IF "survey_2013_all_participants" \in DOMAIN con THEN 2013 ELSE 2014
RawSurvey == con[SurveyTableName(SurveyYear)]
SurveyDone == pc = "done" /\ call.fn = "read_survey_all_participants_table"
SurveyReturned == SurveyDone /\ ret.status = "ok"
Missing(c) == IsNull(c)

\* the foundation value the merge rule of the specification gives a pair
C1_Expected(pier, slab) ==
    IF pier \in {Str(""), None}
    THEN (IF slab = Str("Slab") THEN Str("Slab") ELSE None)
    ELSE IF pier = Str("Pier and beam") /\ slab \in {Str(""), None}
    THEN Str("Pier and beam")
    ELSE Str("Both")

C1_Pair(pier, slab) == [foundation_pier_beam |-> Str(pier), foundation_slab |-> Str(slab)]

\* C1: _merge_foundation_columns is defined on every pair of null, '', the
\* affirmative token or another string, and gives 'Slab' / missing when pier
\* is '' or null, 'Pier and beam' when pier is affirmative and slab '' or
\* null, and 'Both' otherwise; the normalizer's foundation column holds that
\* value for every row.
C1_MergeFoundation ==
    /\ _merge_foundation_columns(C1_Pair("", "Slab")) = Str("Slab")
    /\ _merge_foundation_columns(C1_Pair("Pier and beam", "")) = Str("Pier and beam")
    /\ _merge_foundation_columns(C1_Pair("Pier and beam", "Slab")) = Str("Both")
    /\ _merge_foundation_columns(C1_Pair("", "")) = None
    /\ \A i \in 1..NRows(RawSurvey) :
        LET row == FoundationRow(RawSurvey, i)
            want == C1_Expected(row.foundation_pier_beam, row.foundation_slab)
        IN /\ _merge_foundation_columns(row) = want
           /\ SurveyReturned =>
                IF want = None THEN Missing(ret.df.data["foundation"][i])
                ELSE ret.df.data["foundation"][i] = want

\* C1 witness: a returned table whose row held another string in the pier
\* column and '' in the slab column, merged to 'Both'
C1_Witness ==
    /\ SurveyReturned
    /\ RawSurvey.data["foundation_pier_beam"][1] = Str("Yes")
    /\ RawSurvey.data["foundation_slab"][1] = Str("")
    /\ ret.df.data["foundation"][1] = Str("Both")

\* the kilowatt value the 2013 rule lists for a free-text pv_system_size
C2_Listed(token) ==
    CASE token = Str("5kw I think") -> Norm(5, 0)
      [] token = Str("8060 Watts") -> Norm(8060, 0 - 3)
      [] token = Str("20W (solar powered attic fan)") -> Norm(20, 0 - 3)

\* C2: the 2013 normalizer maps the scenario row to foundation =
\* 'Pier and beam', primary_residence = true, pv_system_size = 8.060, and
\* outputs each of the three listed free-text sizes as its kilowatt value.
C2_ScenarioRow ==
    (SurveyDone /\ SurveyYear = 2013) =>
        /\ RawSurvey = ScenarioTable =>
              /\ ret.status = "ok"
              /\ ret.df.data["foundation"][1] = Str("Pier and beam")
              /\ ret.df.data["primary_residence"][1] = Bool(TRUE)
              /\ ret.df.data["pv_system_size"][1] = Norm(8060, 0 - 3)
        /\ "pv_system_size" \in DOMAIN RawSurvey.data =>
              \A i \in 1..NRows(RawSurvey) :
                  RawSurvey.data["pv_system_size"][i] \in
                        {Str("5kw I think"), Str("8060 Watts"),
                         Str("20W (solar powered attic fan)")}
                  => /\ ret.status = "ok"
                     /\ ret.df.data["pv_system_size"][i]
                            = C2_Listed(RawSurvey.data["pv_system_size"][i])

ToBoolColumns ==
    {"primary_residence", "smartphone_own", "tablet_own", "pv_system_own", "retrofits",
     "retrofits_reason", "irrigation_system", "care_energy_cost", "reduce_energy_cost",
     "modify_routines", "pets", "programmable_thermostat_currently_programmed",
     "ac_service_package", "water_heater_tankless"}

\* C3: after a yes/no rule every output cell of the column is true, false
\* or missing, never a residual string, whatever the raw cell held.
C3_BoolOrMissing ==
    SurveyReturned =>
        \A c \in ToBoolColumns \cap DOMAIN ret.df.data :
            \A i \in 1..Len(ret.df.data[c]) :
                IsBool(ret.df.data[c][i]) \/ Missing(ret.df.data[c][i])

IsCastColumn(c) ==
    \/ c \in {"year_moved_into_house", "year_house_constructed", "house_num_rooms",
              "house_square_feet", "ceiling_fans_count", "compressors_count"}
    \/ startswith(c, "temp_summer_")
    \/ startswith(c, "residents_")

\* C4: no cell value aborts normalization: the call returns the table, and
\* in a numeric-cast column a cell that cannot be mapped is missing.
C4_NoCellAborts ==
    SurveyDone =>
        /\ ret.status = "ok"
        /\ \A c \in DOMAIN ret.df.data :
              IsCastColumn(c) =>
                  \A i \in 1..Len(ret.df.data[c]) :
                      IsNum(ret.df.data[c][i]) \/ Missing(ret.df.data[c][i])

-----------------------------------------------------------------------------
(* Claims about the time-windowed queries, checked under SpecQueries.      *)

EgaugeDone == pc = "done" /\ call.fn = "read_electricity_egauge_query"
ErtDone ==
    pc = "done" /\ call.fn \in {"read_gas_ert_query", "read_water_ert_query",
                                "read_water_capstone_query"}
SupportedFreq == {"T", "15T", "H"}

\* the table and the time column the specification gives a frequency
C5_Table(freq) ==
    CASE freq = "T" -> "electricity_egauge_minutes"
      [] freq = "15T" -> "electricity_egauge_15min"
      [] freq = "H" -> "electricity_egauge_hours"

C5_TimeColumn(freq) ==
    CASE freq = "T" -> "localminute"
      [] freq = "15T" -> "local_15min"
      [] freq = "H" -> "localhour"

\* the rows of table with the call's dataid and start_time <= time < end_time
WindowRows(table, time_col) ==
    {r \in con[table].rows :
        /\ r["dataid"] = call.dataid
        /\ call.start_time <= r[time_col]
        /\ r[time_col] < call.end_time}

\* rows is the window of table in ascending time order, indexed by the
\* time column converted to the call's tz
IsWindow(rows, table, time_col) ==
    LET window == WindowRows(table, time_col)
        instants == Ascending({r[time_col] : r \in window})
    IN /\ Len(rows) = Cardinality(window)
       /\ Len(rows) = Len(instants)
       /\ \A i \in 1..Len(rows) :
             /\ rows[i].index = [instant |-> instants[i], tz |-> call.tz]
             /\ \E r \in window :
                   /\ r[time_col] = instants[i]
                   /\ \A c \in DOMAIN rows[i].data : rows[i].data[c] = r[c]

\* C5: without a chunksize read_electricity_egauge_query returns exactly
\* the rows of the table of freq with the dataid and start_time <= t <
\* end_time, ascending, indexed by the time column converted to tz.
C5_EgaugeWindow ==
    (EgaugeDone /\ call.chunksize = <<>> /\ call.freq \in SupportedFreq) =>
        /\ ret.status = "ok"
        /\ ret.index_name = C5_TimeColumn(call.freq)
        /\ IsWindow(ret.rows, C5_Table(call.freq), C5_TimeColumn(call.freq))

\* C5 witness: the 15-minute table holds household 1 at instants 0, 1, 2 and
\* household 2 at 1; the window [1, 2) returns the one reading at 1
C5_Witness ==
    /\ EgaugeDone /\ call.chunksize = <<>> /\ call.freq = "15T"
    /\ call.dataid = 1 /\ call.start_time = 1 /\ call.end_time = 2
    /\ Cardinality(con["electricity_egauge_15min"].rows) = MaxTime + 2
    /\ ret.status = "ok"
    /\ Len(ret.rows) = 1
    /\ ret.rows[1].index = [instant |-> 1, tz |-> call.tz]

\* C6: every freq other than 'T', '15T', 'H' raises ValueError before any
\* statement is executed; the three supported values raise no ValueError.
C6_InvalidFrequency ==
    EgaugeDone =>
        IF call.freq \in SupportedFreq
        THEN ~(ret.status = "raise" /\ ret.exc = "ValueError")
        ELSE ret.status = "raise" /\ ret.exc = "ValueError" /\ nqueries = 0

\* C6 witness: freq 'D' on a database whose minutes table holds readings
C6_Witness ==
    /\ EgaugeDone /\ call.freq = "D"
    /\ con["electricity_egauge_minutes"].rows # {}
    /\ ret.status = "raise" /\ ret.exc = "ValueError"
    /\ nqueries = 0

\* C7: with chunksize = k the call returns chunks whose concatenation is the
\* unchunked window, each of k rows except possibly the last.
C7_Chunked ==
    (EgaugeDone /\ call.chunksize # <<>> /\ call.freq \in SupportedFreq) =>
        /\ ret.status = "ok"
        /\ "chunks" \in DOMAIN ret
        /\ IsWindow(Flatten(ret.chunks), C5_Table(call.freq), C5_TimeColumn(call.freq))
        /\ \A j \in 1..Len(ret.chunks) :
              /\ Len(ret.chunks[j]) <= call.chunksize[1]
              /\ j < Len(ret.chunks) => Len(ret.chunks[j]) = call.chunksize[1]
              /\ Len(ret.chunks[j]) > 0

C8_Table(fn) ==
    CASE fn = "read_gas_ert_query" -> "gas_ert"
      [] fn = "read_water_ert_query" -> "water_ert"
      [] fn = "read_water_capstone_query" -> "water_capstone"

C8_TimeColumn(fn) ==
    CASE fn = "read_gas_ert_query" -> "readtime"
      [] fn = "read_water_ert_query" -> "readtime"
      [] fn = "read_water_capstone_query" -> "localminute"

\* C8: read_gas_ert_query, read_water_ert_query and
\* read_water_capstone_query each execute one SELECT and return the window
\* of their table, ascending, indexed by the time column converted to tz.
C8_ErtWindow ==
    ErtDone =>
        /\ ret.status = "ok"
        /\ nqueries = 1
        /\ IsWindow(ret.rows, C8_Table(call.fn), C8_TimeColumn(call.fn))

-----------------------------------------------------------------------------
(* Claims about GetSurveyData2014.py, checked under SpecScript.            *)

Designated == Range(temps) \cup Range(ModeColumns) \cup {"pv_satisfied_p"}
Queried == con.survey_prep

\* C9: with impute = True the imputation step completes and leaves no
\* missing value in a designated column; pv_satisfied_p gaps hold 3, numeric
\* gaps the column median and the categorical gaps the column mode.
C9_ImputeLeavesNoGap ==
    impute =>
        /\ pc = "crashed" => ret.exc # "IndexError"
        /\ pc = "imputed" =>
              /\ Len(surveys.rows) = Len(Queried)
              /\ \A i \in 1..Len(surveys.rows) : \A c \in Designated :
                    /\ ~Missing(surveys.rows[i].cells[c])
                    /\ Missing(Queried[i].cells[c]) =>
                          surveys.rows[i].cells[c] =
                              IF c = "pv_satisfied_p" THEN Num(3)
                              ELSE IF c \in Range(temps) THEN median(Column(Queried, c))
                              ELSE Num(mode(Column(Queried, c))[1])

InOutput(rid) == \E k \in 1..Len(surveydata) : surveydata[k].left = rid

StillMissing(i) ==
    \E c \in Designated :
        /\ Missing(Queried[i].cells[c])
        /\ c \in Range(temps) => median(Column(Queried, c)) = NaN

RECURSIVE SumOver(_, _)
\* the sum of f over the keys in S
SumOver(f, S) ==
    IF S = {} THEN 0
    ELSE LET k == CHOOSE x \in S : TRUE IN f[k] + SumOver(f, S \ {k})

\* the indicator columns generated for source column c
IndicatorsOf(dummies, c) == {k \in DOMAIN dummies : k[1] = c}

\* every indicator of dummies is 0 or 1, and the indicators of each encoded
\* column sum to 1 where cells holds a value and to 0 where it is missing
OneHot(dummies, cells) ==
    /\ \A k \in DOMAIN dummies : dummies[k] \in {0, 1}
    /\ \A c \in Range(categors) :
          SumOver(dummies, IndicatorsOf(dummies, c)) = IF Missing(cells[c]) THEN 0 ELSE 1

\* the categories of the values present in each encoded column of rows
PresentCategories(rows) ==
    [c \in Range(categors) |-> SelectSeq(unique(Column(rows, c)), LAMBDA v : ~Missing(v))]

\* C11: in every row of the encoded table and of the saved table each
\* indicator is 0 or 1 and the indicators of each of the five encoded columns
\* sum to 1 when the row's source value is present, to 0 when it is missing
\* (the latter seen on get_dummies over the queried rows, since the script
\* encodes no row with a missing source value).
C11_IndicatorsSumToOne ==
    /\ pc \in {"encoded", "saved"} =>
          \A i \in 1..Len(surveysOHE) : OneHot(surveysOHE[i].cells, surveys.rows[i].cells)
    /\ pc = "saved" =>
          \A k \in 1..Len(surveydata) : OneHot(surveydata[k].dummies, surveydata[k].cells)
    /\ pc = "queried" =>
          LET encoded == get_dummies(Queried, PresentCategories(Queried))
          IN \A i \in 1..Len(Queried) : OneHot(encoded[i].cells, Queried[i].cells)

\* C11 witness: a saved row with two foundation indicators, one of them 1
C11_Witness ==
    /\ pc = "saved"
    /\ \E k \in 1..Len(surveydata) :
          /\ Cardinality(IndicatorsOf(surveydata[k].dummies, "foundation_type_p")) = 2
          /\ surveydata[k].dummies[<<"foundation_type_p", surveydata[k].cells["foundation_type_p"]>>] = 1

\* C12: the saved table has no more rows than the survey table and every
\* saved row pairs one survey row with the indicators computed from that same
\* row, also when dataid values repeat.
C12_JoinPairsOwnIndicators ==
    pc = "saved" =>
        /\ Len(surveydata) <= Len(surveys.rows)
        /\ \A k \in 1..Len(surveydata) :
              /\ surveydata[k].left = surveydata[k].right
              /\ \E i \in 1..Len(surveys.rows) :
                    /\ surveys.rows[i].rid = surveydata[k].left
                    /\ surveydata[k].cells = surveys.rows[i].cells
                    /\ surveydata[k].dummies = surveysOHE[i].cells

-----------------------------------------------------------------------------
(* Further claims about the survey normalizers, checked under SpecSurvey.  *)

\* the column names of a table, as a set
ColumnSet(df) == {df.columns[i] : i \in 1..Len(df.columns)}

\* C13: a returned table has a column foundation whose every cell is
\* 'Pier and beam', 'Slab', 'Both' or missing, and neither
\* foundation_pier_beam nor foundation_slab is a column of it.
C13_FoundationColumn ==
    SurveyReturned =>
        /\ "foundation" \in ColumnSet(ret.df)
        /\ "foundation" \in DOMAIN ret.df.data
        /\ \A i \in 1..Len(ret.df.data["foundation"]) :
              \/ ret.df.data["foundation"][i] \in
                    {Str("Pier and beam"), Str("Slab"), Str("Both")}
              \/ Missing(ret.df.data["foundation"][i])
        /\ Len(ret.df.data["foundation"]) = NRows(RawSurvey)
        /\ {"foundation_pier_beam", "foundation_slab"} \cap ColumnSet(ret.df) = {}
        /\ {"foundation_pier_beam", "foundation_slab"} \cap DOMAIN ret.df.data = {}

\* C13 witness: a returned 2014 table of two rows with foundation
\* 'Pier and beam' and 'Slab'
C13_Witness ==
    /\ SurveyReturned /\ SurveyYear = 2014
    /\ ret.df.data["foundation"] = <<Str("Pier and beam"), Str("Slab")>>
    /\ "foundation_slab" \in DOMAIN RawSurvey.data

\* the prefixes of the notnull-flag columns of a year
C14_Prefixes(year) ==
    IF year = 2013
    THEN {"spend_time_at_home_", "ethnicity_", "cooking_", "hvac_", "heating_",
          "ac_cooling_", "light_bulbs_"}
    ELSE {"spend_time_at_home_", "ethnicity_", "hvac_", "pv_neg_factors_", "pv_pos_"}

\* column is a notnull-flag column of the year: it has one of the prefixes
\* and no rule of its own name (cooking_weekdays_times and
\* cooking_weekends_times are categorical columns of 2013)
C14_IsFlagColumn(year, column) ==
    /\ \E p \in C14_Prefixes(year) : startswith(column, p)
    /\ column \notin {"cooking_weekdays_times", "cooking_weekends_times"}

\* C14: a notnull-flag column comes out boolean in every cell: in 2013 true
\* exactly when the raw cell is not null (so '' gives true), in 2014 true
\* exactly when the raw cell is neither null nor ''.
C14_NotnullFlags ==
    SurveyReturned =>
        \A c \in ColumnSet(RawSurvey) :
            C14_IsFlagColumn(SurveyYear, c) =>
                /\ c \in DOMAIN ret.df.data
                /\ \A i \in 1..NRows(RawSurvey) :
                      LET raw == RawSurvey.data[c][i]
                      IN ret.df.data[c][i] =
                            IF SurveyYear = 2013 THEN Bool(raw # None)
                            ELSE Bool(raw # None /\ raw # Str(""))

\* C14 witness: a returned 2013 table whose flag column held '' and came
\* out true
C14_Witness ==
    /\ SurveyReturned /\ SurveyYear = 2013
    /\ "heating_gas" \in DOMAIN RawSurvey.data
    /\ RawSurvey.data["heating_gas"][1] = Str("")
    /\ ret.df.data["heating_gas"][1] = Bool(TRUE)

\* the columns of the table when the per-column loop starts: the raw columns
\* without the two foundation sources, then foundation
EnteringColumns ==
    SelectSeq(RawSurvey.columns,
              LAMBDA c : c \notin {"foundation_pier_beam", "foundation_slab"})
    \o <<"foundation">>

\* the source line of the final else of the year's rule chain
ElseBranch(year) == IF year = 2013 THEN 340 ELSE 514

\* C15: the columns that enter the loop are each handled once, in order, by
\* one branch, whatever the loop drops or adds; a column that matches no rule
\* (dataid is one) is in the output with its cells unchanged.
C15_EachColumnOnce ==
    SurveyReturned =>
        /\ Len(ret.visited) = Len(EnteringColumns)
        /\ \A k \in 1..Len(ret.visited) :
              /\ ret.visited[k][1] = EnteringColumns[k]
              /\ \A j \in 1..Len(ret.visited) : ret.visited[j][1] = ret.visited[k][1] => j = k
              /\ ret.visited[k][1] = "dataid" => ret.visited[k][2] = ElseBranch(SurveyYear)
              /\ (ret.visited[k][2] = ElseBranch(SurveyYear) /\ ret.visited[k][1] # "foundation")
                 => /\ ret.visited[k][1] \in ColumnSet(ret.df)
                    /\ ret.df.data[ret.visited[k][1]] = RawSurvey.data[ret.visited[k][1]]

\* C15 witness: a returned 2013 table in which the loop dropped
\* programmable_thermostat_difficultly and added
\* programmable_thermostat_difficulty, and visited two columns
C15_Witness ==
    /\ SurveyReturned /\ SurveyYear = 2013
    /\ "programmable_thermostat_difficultly" \in ColumnSet(RawSurvey)
    /\ "programmable_thermostat_difficulty" \in ColumnSet(ret.df)
    /\ "programmable_thermostat_difficultly" \notin ColumnSet(ret.df)
    /\ Len(ret.visited) = 2

\* the raw table has a column whose name matches no rule of either year
HasUnknownColumn == "dataid" \in ColumnSet(RawSurvey)

\* C16 as stated: a column whose name matches no rule makes the normalizer
\* fail with UnknownColumnRule.
C16_UnknownColumnRaises ==
    (SurveyDone /\ HasUnknownColumn) =>
        ret.status = "raise" /\ ret.exc = "UnknownColumnRule"

\* C16 amended: no call fails with UnknownColumnRule; a column whose name
\* matches no rule takes the final else branch and is passed through to the
\* returned table unchanged, as the merged foundation column does in every
\* returned table.
C16_UnknownColumnPassesThrough ==
    SurveyDone =>
        /\ ~(ret.status = "raise" /\ ret.exc = "UnknownColumnRule")
        /\ HasUnknownColumn =>
              /\ ret.status = "ok"
              /\ <<"dataid", ElseBranch(SurveyYear)>> = ret.visited[1]
              /\ ret.df.data["dataid"] = RawSurvey.data["dataid"]
        /\ ret.status = "ok" =>
              ret.visited[Len(ret.visited)] = <<"foundation", ElseBranch(SurveyYear)>>

\* C16 witness: a returned 2014 table whose dataid column holds the raw text
C16_Witness ==
    /\ SurveyReturned /\ SurveyYear = 2014 /\ HasUnknownColumn
    /\ RawSurvey.data["dataid"][1] = Str("free text")
    /\ ret.df.data["dataid"][1] = Str("free text")

\* the columns the claim lists as flagged for cleaning beyond scope
C17_Flagged(year, column) ==
    IF year = 2013
    THEN column \in {"house_ceiling_height", "reduce_energy_yes",
                     "electricity_used_monthly", "gas_used_monthly"}
    ELSE \/ column \in {"pv_system_reason", "pv_owner_response", "retrofits_detail",
                        "thermostats_brand", "electronic_devices_on_other"}
         \/ \E p \in {"pv_system_features_", "pv_system_common_", "compressor1_",
                      "compressor2_", "compressor3_"} : startswith(column, p)

\* C17: no column flagged as needing cleaning beyond scope is a column of
\* the returned table.
C17_FlaggedColumnsAbsent ==
    SurveyReturned =>
        \A c \in ColumnSet(RawSurvey) :
            C17_Flagged(SurveyYear, c) =>
                c \notin ColumnSet(ret.df) /\ c \notin DOMAIN ret.df.data

\* the table with its rows in reverse order
ReverseRows(df) ==
    [columns |-> df.columns,
     data |-> [c \in DOMAIN df.data |->
                  [i \in 1..Len(df.data[c]) |-> df.data[c][Len(df.data[c]) + 1 - i]]]]

\* C18: the returned table has the rows of the raw table, in the same
\* order: every column has one cell per raw row, the foundation cell of row i
\* is the merge of raw row i, and normalizing the raw rows in reverse order
\* gives the same rows in reverse order.
C18_RowsPreserved ==
    SurveyReturned =>
        /\ \A c \in DOMAIN ret.df.data : Len(ret.df.data[c]) = NRows(RawSurvey)
        /\ DOMAIN ret.df.data = ColumnSet(ret.df)
        /\ \A i \in 1..NRows(RawSurvey) :
              LET row == FoundationRow(RawSurvey, i)
                  want == C1_Expected(row.foundation_pier_beam, row.foundation_slab)
              IN IF want = None THEN Missing(ret.df.data["foundation"][i])
                 ELSE ret.df.data["foundation"][i] = want
        /\ LET reversed == Normalize(SurveyYear, ReverseRows(RawSurvey))
           IN reversed.status = "ok" /\ reversed.df = ReverseRows(ret.df)

\* C18 witness: a returned 2013 table of two rows from which the loop
\* dropped house_ceiling_height
C18_Witness ==
    /\ SurveyReturned /\ SurveyYear = 2013
    /\ "house_ceiling_height" \in ColumnSet(RawSurvey)
    /\ NRows(RawSurvey) = 2
    /\ ret.df.data["foundation"] = <<Str("Pier and beam"), Str("Slab")>>

\* v <= n for a number cell v and an integer n
C19_AtMost(v, n) == v[2] <= n * Pow10(0 - v[3])

\* the values the correction is tried on: integers and decimals below, at
\* and above 1000 and up to 1000000, and the missing value
C19_Values ==
    {NaN}
    \cup {Norm(m, 0 - d) : m \in {0 - 5, 0, 1, 20, 999, 1000, 1001, 3500, 8060, 999999,
                                  1000000, 1000001, 10000000},
                          d \in {0, 1, 3}}

\* C19: correct(v) = v for a missing v and for every v <= 1000 (1000
\* itself included); for 1000 < v <= 1000000, correct(v) = v / 1000 is at most
\* 1000; in both cases correct(correct(v)) = correct(v).  Every pv_system_size
\* cell of a returned table is a fixed point of the correction.
C19_UnitCorrectIdempotent ==
    /\ \A v \in C19_Values :
          /\ (Missing(v) \/ C19_AtMost(v, 1000)) => UnitCorrect(v) = v
          /\ (~Missing(v) /\ ~C19_AtMost(v, 1000) /\ C19_AtMost(v, 1000000)) =>
                /\ UnitCorrect(v) = Norm(v[2], v[3] - 3)
                /\ C19_AtMost(UnitCorrect(v), 1000)
          /\ (Missing(v) \/ C19_AtMost(v, 1000000)) =>
                UnitCorrect(UnitCorrect(v)) = UnitCorrect(v)
    /\ (SurveyReturned /\ "pv_system_size" \in DOMAIN ret.df.data) =>
          \A i \in 1..Len(ret.df.data["pv_system_size"]) :
              LET v == ret.df.data["pv_system_size"][i]
              IN (Missing(v) \/ IsNum(v)) /\ UnitCorrect(v) = v

\* C19 witness: a returned table whose pv_system_size cells '3500' and
\* '1000' came out as 3.5 and 1000
C19_Witness ==
    /\ SurveyReturned
    /\ "pv_system_size" \in DOMAIN ret.df.data
    /\ RawSurvey.data["pv_system_size"] = <<Str("3500"), Str("1000")>>
    /\ ret.df.data["pv_system_size"] = <<Norm(35, 0 - 1), Num(1000)>>


\* the columns whose rule ends in a cast to a categorical type
C20_IsCategorical(column) ==
    \/ column \in {"number_floors", "tv_hours", "education_level",
                   "total_annual_income", "house_drafty", "ac_comfortability"}
    \/ \E p \in {"sex_", "residents_", "electronic_devices_", "appliance_"} :
          startswith(column, p)

\* C20: categorical rules are idempotent: applying the rule of a categorical
\* column to the column it already produced from raw strings and nulls gives
\* that column again, cell for cell.
C20_CategoricalIdempotent ==
    SurveyReturned =>
        \A c \in ColumnSet(RawSurvey) :
            (C20_IsCategorical(c) /\ c \in DOMAIN ret.df.data) =>
                LET again == Rule(SurveyYear, c, ret.df.data[c])
                IN /\ again.op = "set"
                   /\ again.values = ret.df.data[c]

-----------------------------------------------------------------------------
(* Claims about utils.py, checked under SpecUtils.                         *)

SqlQueryDone == pc = "done" /\ call.fn = "read_sql_query"

\* the SQL text the arguments of the call designate, <<>> when they
\* designate none
C21_Text ==
    IF call.sql_str # None THEN <<call.sql_str[2]>>
    ELSE IF call.sql_file # None /\ call.sql_file[2] \in DOMAIN SqlFiles
    THEN <<SqlFiles[call.sql_file[2]]>>
    ELSE <<>>

C21_StartsWithSelect(text) == startswith(Upper(LStrip(text)), "SELECT")

\* C21: utils.read_sql_query only executes SELECT statements: a call whose
\* SQL text does not begin with the word SELECT raises ValueError and
\* executes nothing against the connection.
C21_OnlySelectExecuted ==
    (SqlQueryDone /\ C21_Text # <<>> /\ ~C21_StartsWithSelect(C21_Text[1])) =>
        /\ ret.status = "raise"
        /\ ret.exc = "ValueError"
        /\ nqueries = 0

\* C22: utils.read_sql_query takes its text from sql_str when that is given,
\* else from the file sql_file names, executes it once and returns the
\* result (a generator when chunksize is set); with neither argument it
\* raises TypeError and executes nothing.
C22_QueryTextChosen ==
    SqlQueryDone =>
        IF call.sql_str = None /\ call.sql_file = None
        THEN ret.status = "raise" /\ ret.exc = "TypeError" /\ nqueries = 0
        ELSE (C21_Text # <<>> /\ C21_StartsWithSelect(C21_Text[1])) =>
                /\ ret.status = "ok"
                /\ ret.sql = C21_Text[1]
                /\ nqueries = 1
                /\ ret.value = IF call.chunksize = <<>> THEN "DataFrame" ELSE "generator"

MetadataDone == pc = "done" /\ call.fn = "read_metadata_table"
RawMetadata == con["metadata"]

\* the instant a source cell stands for: a cell without timezone is read as UTC
C23_SourceInstant(c) == IF TzOf(c) = "naive" THEN c[2] ELSE InstantOf(c)

\* C23: read_metadata_table does not raise and returns each of the eight
\* datetime columns timezone-aware in tz with every cell at the instant of
\* its source cell, a source column without timezone being read as UTC and
\* a timezone-aware one converted directly; a null time stays null.
C23_DatetimeColumnsAware ==
    MetadataDone =>
        /\ ret.status = "ok"
        /\ \A k \in 1..Len(datetime_columns) :
              LET c == datetime_columns[k]
              IN \A i \in 1..NRows(RawMetadata) :
                    LET raw == RawMetadata.data[c][i]
                        out == ret.df.data[c][i]
                    IN /\ IsDatetime(out)
                       /\ TzOf(out) = call.tz
                       /\ (raw[1] = "NaT") = (out[1] = "NaT")
                       /\ raw[1] = "dt" => InstantOf(out) = C23_SourceInstant(raw)

\* C23 witness: a table returned in US/Central whose min_time columns had no
\* timezone and whose max_time columns were timezone-aware, with a time in
\* daylight-saving time
C23_Witness ==
    /\ MetadataDone /\ ret.status = "ok" /\ call.tz = "US/Central"
    /\ RawMetadata.data["egauge_min_time"][1] = Datetime(2, "naive")
    /\ RawMetadata.data["egauge_max_time"][1] = Datetime(3, "UTC")
    /\ ret.df.data["egauge_min_time"][1] = Datetime(0 - 3, "US/Central")
    /\ ret.df.data["egauge_max_time"][1] = Datetime(0 - 2, "US/Central")

\* the distinct values of the raw text column
C28_Distinct == {RawMetadata.data["pv"][i] : i \in 1..NRows(RawMetadata)}

\* the raw text column holds 'yes' and exactly one kind of blank, null or ' '
C28_YesAndOneBlank ==
    /\ Str("yes") \in C28_Distinct
    /\ (None \in C28_Distinct) # (Str(" ") \in C28_Distinct)
    /\ C28_Distinct \subseteq {Str("yes"), None, Str(" ")}

\* C28: read_metadata_table turns a column into booleans (cell == 'yes')
\* exactly when its distinct values are {'yes', null} or {'yes', ' '}; any
\* other column, such as one of only 'yes' or one mixing 'yes', null and
\* ' ', keeps its values, and a converted column holds only true and false.
C28_YesColumnsToBool ==
    (MetadataDone /\ ret.status = "ok") =>
        \A i \in 1..NRows(RawMetadata) :
            LET raw == RawMetadata.data["pv"][i]
                out == ret.df.data["pv"][i]
            IN IF C28_YesAndOneBlank
               THEN out = Bool(raw = Str("yes"))
               ELSE out = raw

\* C28 witness: a returned table whose text column 'yes', null, 'yes'
\* became true, false, true
C28_Witness ==
    /\ MetadataDone /\ ret.status = "ok"
    /\ RawMetadata.data["pv"] = <<Str("yes"), None, Str("yes")>>
    /\ ret.df.data["pv"] = <<Bool(TRUE), Bool(FALSE), Bool(TRUE)>>

-----------------------------------------------------------------------------
(* Further claims about the rule chains, checked under SpecSurvey.         *)

\* <<column name, line of its condition>> for every exact-name rule of the
\* 2013 and of the 2014 chain
C24_ExactRules2013 ==
    {<<"primary_residence", 126>>, <<"number_floors", 128>>,
     <<"year_moved_into_house", 133>>, <<"month_moved_into_house", 138>>,
     <<"year_house_constructed", 144>>, <<"house_num_rooms", 150>>,
     <<"house_ceiling_height", 155>>, <<"house_square_feet", 157>>,
     <<"education_level", 175>>, <<"total_annual_income", 182>>,
     <<"smartphone_own", 194>>, <<"tablet_own", 196>>,
     <<"pv_system_own", 198>>, <<"pv_system_size", 200>>,
     <<"electricity_used_monthly", 212>>, <<"gas_used_monthly", 214>>,
     <<"retrofits", 216>>, <<"retrofits_detail", 218>>,
     <<"retrofits_reason", 220>>, <<"irrigation_system", 229>>,
     <<"cooking_weekdays_times", 231>>, <<"cooking_weekends_times", 235>>,
     <<"thermostat_settings", 245>>, <<"tv_hours", 252>>,
     <<"care_energy_cost", 260>>, <<"reduce_energy_cost", 262>>,
     <<"reduce_energy_yes", 264>>, <<"modify_routines", 266>>,
     <<"pets", 286>>, <<"programmable_thermostat_currently_programmed", 288>>,
     <<"programmable_thermostat_difficultly", 290>>,
     <<"ac_comfortability", 295>>, <<"house_drafty", 300>>,
     <<"change_ac_filters", 307>>, <<"ac_service_package", 314>>,
     <<"ac_service_date", 318>>, <<"water_heater_tankless", 324>>,
     <<"recessed_lights_location", 336>>, <<"track_lights_location", 338>>}

C24_ExactRules2014 ==
    {<<"status", 403>>, <<"education_level", 418>>,
     <<"total_annual_income", 425>>, <<"pv_system_own", 436>>,
     <<"pv_system_size", 438>>, <<"pv_system_reason", 453>>,
     <<"pv_system_satisfied", 455>>, <<"pv_owner_response", 471>>,
     <<"retrofits", 473>>, <<"retrofits_detail", 475>>,
     <<"irrigation_system", 477>>, <<"ceiling_fans_count", 479>>,
     <<"compressors_count", 483>>, <<"thermostats_brand", 498>>,
     <<"programmable_thermostat_currently_programmed", 500>>,
     <<"programmable_thermostat_difficulty", 502>>,
     <<"ac_service_package", 508>>, <<"electronic_devices_on_other", 510>>}
C24_ExactRules(year) == IF year = 2013 THEN C24_ExactRules2013 ELSE C24_ExactRules2014

\* C24: the first matching predicate wins and an exact-name rule is never
\* shadowed: every column named by an exact-name rule of its year is handled
\* by that rule, also when a prefix rule of the year matches the name
\* (cooking_weekdays_times and cooking_weekends_times keep their categories
\* instead of becoming flags, electronic_devices_on_other is dropped).
C24_ExactRuleWins ==
    /\ SurveyDone =>
          /\ \A p \in C24_ExactRules(SurveyYear) : Branch(SurveyYear, p[1]) = p[2]
          /\ \A k \in 1..Len(ret.visited) : \A p \in C24_ExactRules(SurveyYear) :
                ret.visited[k][1] = p[1] => ret.visited[k][2] = p[2]
    /\ SurveyReturned =>
          /\ \A c \in {"cooking_weekdays_times", "cooking_weekends_times"} :
                (SurveyYear = 2013 /\ c \in ColumnSet(RawSurvey)) =>
                    \A i \in 1..NRows(RawSurvey) :
                        ret.df.data[c][i] =
                            IF RawSurvey.data[c][i] \in
                                  Cells({"None", "Less than 1 hour", "An hour or more"}) \ {None}
                            THEN RawSurvey.data[c][i] ELSE NaN
          /\ SurveyYear = 2014 => "electronic_devices_on_other" \notin ColumnSet(ret.df)

\* C24 witness: a returned 2013 table whose cooking_weekdays_times column
\* held 'None' and null: the exact rule at line 231 handled it
C24_Witness ==
    /\ SurveyReturned /\ SurveyYear = 2013
    /\ "cooking_weekdays_times" \in ColumnSet(RawSurvey)
    /\ RawSurvey.data["cooking_weekdays_times"] = <<Str("None"), None>>
    /\ ret.df.data["cooking_weekdays_times"] = <<Str("None"), NaN>>
    /\ ret.visited[1] = <<"cooking_weekdays_times", 231>>

RECURSIVE C25_Remove(_, _)
\* text without the substrings pats, removed one pattern after the other;
\* a pattern is <<substring, case-sensitive>>
C25_Remove(text, pats) ==
    IF Len(pats) = 0 THEN text
    ELSE C25_Remove(StrReplace(text, Head(pats)[1], "", Head(pats)[2]), Tail(pats))

\* the cleaned text of a pv_system_size cell, <<>> when cleaning leaves
\* nothing to parse
C25_Cleaned(year, text) ==
    IF year = 2013 THEN <<C25_Remove(text, <<<<" ", TRUE>>, <<"kw", FALSE>>>>)>>
    ELSE LET t == C25_Remove(text, <<<<"kw", FALSE>>, <<"\"", TRUE>>, <<",", TRUE>>,
                                     <<" ", TRUE>>, <<"DC", TRUE>>>>)
         IN IF t \in {"", "NA", "n/a"} THEN <<>> ELSE <<t>>

\* the output the pv_system_size rule is to give a raw cell
C25_Expected(year, raw) ==
    IF ~IsStr(raw) THEN NaN
    ELSE LET t == C25_Cleaned(year, raw[2])
         IN IF t = <<>> \/ ~IsFloatText(t[1]) THEN NaN
            ELSE LET v == FloatOfText(t[1])
                 IN IF C19_AtMost(v, KwThreshold) THEN v ELSE NumDiv1000(v)

\* C25: the pv_system_size rule of either year never raises on a column of
\* strings and nulls: each cell goes through the year's text cleaning, text
\* that does not parse as a number becomes missing, and a parsed value v
\* comes out as v when v <= 1000 and as v / 1000 when v > 1000.
C25_PvSystemSizeCleaned ==
    (SurveyDone /\ "pv_system_size" \in ColumnSet(RawSurvey)) =>
        /\ ret.status = "ok"
        /\ \A i \in 1..NRows(RawSurvey) :
              ret.df.data["pv_system_size"][i] =
                  C25_Expected(SurveyYear, RawSurvey.data["pv_system_size"][i])

\* C25 witness: a returned 2014 table whose pv_system_size cells '5.5 kW DC'
\* and '"6,000"' came out as 5.5 and 6
C25_Witness ==
    /\ SurveyReturned /\ SurveyYear = 2014
    /\ "pv_system_size" \in ColumnSet(RawSurvey)
    /\ RawSurvey.data["pv_system_size"] = <<Str("5.5 kW DC"), Str("\"6,000\"")>>
    /\ ret.df.data["pv_system_size"] = <<Norm(55, 0 - 1), Num(6)>>

\* the categories of each categorical column of the 2014 table
C26_Categories(column) ==
    CASE column = "education_level" -> EducationCategories
      [] column = "total_annual_income" -> IncomeCategories
      [] column = "pv_system_satisfied" ->
            StrCats({"Very dissatisfied", "Somewhat dissatisfied", "Neutral",
                     "Somewhat satisfied", "Very"})
      [] column = "programmable_thermostat_difficulty" ->
            StrCats({"Easy", "Moderately difficult", "Very difficult"})

\* a token without its triple double-quotes
C26_Unquoted(c) == IF IsStr(c) THEN Str(StrReplace(c[2], "\"\"\"", "", TRUE)) ELSE c

\* C26: in the 2014 normalizer a total_annual_income cell that is an income
\* category wrapped in triple double-quotes maps to the category of the
\* unquoted text; the triple-quoted "I don't know" and "Haven't tried"
\* tokens of programmable_thermostat_currently_programmed and
\* programmable_thermostat_difficulty become missing; every other token of
\* a categorical column that is not a category becomes missing.
C26_TripleQuotedTokens ==
    (SurveyReturned /\ SurveyYear = 2014) =>
        \A c \in ColumnSet(RawSurvey) : \A i \in 1..NRows(RawSurvey) :
            LET raw == RawSurvey.data[c][i]
                out == ret.df.data[c][i]
            IN /\ c = "total_annual_income" =>
                     out = IF C26_Unquoted(raw) \in IncomeCategories
                           THEN C26_Unquoted(raw) ELSE NaN
               /\ (c = "programmable_thermostat_currently_programmed"
                      /\ raw = Str("\"\"\"I don't know\"\"\"")) => Missing(out)
               /\ (c = "programmable_thermostat_difficulty"
                      /\ raw = Str("\"\"\"Haven't tried\"\"\"")) => Missing(out)
               /\ c \in {"education_level", "pv_system_satisfied",
                         "programmable_thermostat_difficulty"} =>
                     out = IF raw \in C26_Categories(c) THEN raw ELSE NaN

\* C26 witness: a returned 2014 table whose total_annual_income cells
\* """$10,000 - $19,999""" and 'a lot' came out as the category
\* $10,000 - $19,999 and missing
C26_Witness ==
    /\ SurveyReturned /\ SurveyYear = 2014
    /\ "total_annual_income" \in ColumnSet(RawSurvey)
    /\ RawSurvey.data["total_annual_income"] =
          <<Str("\"\"\"$10,000 - $19,999\"\"\""), Str("a lot")>>
    /\ ret.df.data["total_annual_income"] = <<Str("$10,000 - $19,999"), NaN>>

\* the count a token of a 2013 count column stands for, <<>> for none;
\* most is the token of the open top class and top its count
C27_Count(raw, digits, most, top) ==
    IF raw = None THEN <<0>>
    ELSE IF raw = Str(most) THEN <<top>>
    ELSE IF IsStr(raw) /\ raw[2] \in digits THEN <<NatVal(raw[2])>>
    ELSE <<>>

\* the output a 2013 count column is to give a raw cell
C27_Expected(column, raw) ==
    LET n == IF column = "tv_hours"
             THEN C27_Count(raw, {"1", "2", "3", "4", "5", "6", "7", "8", "9", "10"},
                            "10 or more", 11)
             ELSE C27_Count(raw, {"1", "2", "3", "4"}, "5 or more", 5)
    IN IF n = <<>> THEN NaN ELSE Num(n[1])

C27_IsCountColumn(column) ==
    \/ column = "tv_hours"
    \/ \E p \in {"sex_", "residents_", "electronic_devices_"} : startswith(column, p)

\* C27: in the 2013 normalizer a column with prefix sex_, residents_ or
\* electronic_devices_ maps null to 0, '1'..'4' to 1..4 and '5 or more' to
\* 5, so every output cell is a count 0..5 or missing and a null input is
\* never missing; tv_hours maps null to 0, '1'..'10' to 1..10 and
\* '10 or more' to 11.
C27_NullCountsAsZero ==
    (SurveyReturned /\ SurveyYear = 2013) =>
        \A c \in ColumnSet(RawSurvey) :
            C27_IsCountColumn(c) =>
                \A i \in 1..NRows(RawSurvey) :
                    LET raw == RawSurvey.data[c][i]
                        out == ret.df.data[c][i]
                    IN /\ out = C27_Expected(c, raw)
                       /\ raw = None => out = Num(0)
                       /\ c # "tv_hours" => out \in NumCats(0, 5) \cup {NaN}

\* C27 witness: a returned 2013 table whose tv_hours cells null and
\* '10 or more' came out as 0 and 11
C27_Witness ==
    /\ SurveyReturned /\ SurveyYear = 2013
    /\ "tv_hours" \in ColumnSet(RawSurvey)
    /\ RawSurvey.data["tv_hours"] = <<None, Str("10 or more")>>
    /\ ret.df.data["tv_hours"] = <<Num(0), Num(11)>>

-----------------------------------------------------------------------------
(* A further claim about GetSurveyData2014.py, checked under SpecScript.   *)

\* C29: with impute = False a row is removed only because of the designated
\* columns: every queried row without a missing value in a designated
\* column is in the saved table, whatever its other columns hold.
C29_OnlyDesignatedColumnsDrop ==
    (pc = "saved" /\ ~impute) =>
        \A i \in 1..Len(Queried) :
            (\A c \in Designated : ~Missing(Queried[i].cells[c])) => InOutput(Queried[i].rid)

-----------------------------------------------------------------------------
(* The two revisions of the 2013 normalizer, checked under SpecSurvey.     *)

ApiSurveyDone == pc = "done" /\ call.fn = "api.read_survey_2013_all_participants_table"

\* the api.py line that holds the text of a line of the column loop of
\* surveys_api.py (api.py 289 is surveys_api.py 125)
C30_ApiLine(line) == line + 164

\* the outcome a of api.py and the outcome s of surveys_api.py are the same:
\* same rule for every column, same table or same error
C30_SameOutcome(a, s) ==
    /\ a.status = s.status
    /\ Len(a.visited) = Len(s.visited)
    /\ \A k \in 1..Len(a.visited) :
          /\ a.visited[k][1] = s.visited[k][1]
          /\ a.visited[k][2] = C30_ApiLine(s.visited[k][2])
    /\ a.status = "ok" => a.df = s.df
    /\ a.status = "raise" => a.exc = s.exc

\* C30: api.read_survey_2013_all_participants_table and
\* surveys_api.read_survey_2013_all_participants_table, each with its own
\* _merge_foundation_columns, applied to the same raw table apply the same
\* rule to every column and return equal tables or raise the same error.
C30_RevisionsEquivalent ==
    /\ ApiSurveyDone => C30_SameOutcome(ret, Normalize(2013, RawSurvey))
    /\ (SurveyDone /\ SurveyYear = 2013) => C30_SameOutcome(api_Normalize(RawSurvey), ret)

\* C30 witness: api.py returned a table whose first row had a null pier and
\* beam cell and 'Slab', merged to Slab
C30_Witness ==
    /\ ApiSurveyDone /\ ret.status = "ok"
    /\ RawSurvey.data["foundation_pier_beam"][1] = None
    /\ RawSurvey.data["foundation_slab"][1] = Str("Slab")
    /\ ret.df.data["foundation"][1] = Str("Slab")
=============================================================================
